---------------------------- MODULE Spec2Model ----------------------------
(***************************************************************************)
(* Event delivery (testnet/stacks-node/src/event_dispatcher.rs) and the    *)
(* Nakamoto tenure stream (stackslib/src/net/api/gettenure.rs).            *)
(*                                                                         *)
(* SpecDelivery : the observer registry, one dispatch call and the         *)
(*                retry loop of EventObserver::send_payload.               *)
(* SpecTenure   : GET /v3/tenures/{block_id}: the handler, the stream      *)
(*                generator, and a client that continues a tenure.         *)
(***************************************************************************)
EXTENDS Integers, Sequences, FiniteSets, TLC

(***************************************************************************)
(* Bounds of the model.                                                    *)
(***************************************************************************)
\* observers that may be registered
NumObservers == 2
\* failed attempts of one send_payload counted exactly; the counters saturate
\* above it ("MaxAttempts or more"), the loop itself is not bounded
MaxAttempts == 2
\* channels register_miner_coordinator may create
MaxChannels == 1
MaxRegistrations == 2
\* events in one batch of receipts
MaxEvents == 2
\* stored blocks: ids 0 .. NumBlocks-1, the parent of block b is b+1, and
\* the id NumBlocks names a block that is not stored
NumBlocks == 3
\* stacks_common::codec::MAX_MESSAGE_LEN (imported at gettenure.rs:22), scaled
MAX_MESSAGE_LEN == 3
\* hint_chunk_size of the block stream (bytes read per pull), scaled
ChunkSize == 1
\* the largest u64, scaled
U64_MAX == 15
\* the timeout argument of send_request, in ticks of the model's clock
Timeout == 1
\* socket addresses host:port may resolve to
MaxAddrs == 2

\* Rust's Option: None, and Some(x)
None == [none |-> TRUE]
Some(x) == [some |-> x]

Min(a, b) == IF a < b THEN a ELSE b

VARIABLES
    \* ---- EventDispatcher (event_dispatcher.rs:904-935)
    registered_observers,               \* number of observers; indices 0..n-1
    any_event_observers_lookup,
    burn_block_observers_lookup,
    mempool_observers_lookup,
    microblock_observers_lookup,
    miner_observers_lookup,
    mined_microblocks_observers_lookup,
    stackerdb_observers_lookup,
    stx_observers_lookup,
    block_proposal_observers_lookup,
    contract_events_observers_lookup,   \* event key -> observer indices
    assets_observers_lookup,            \* asset identifier -> observer indices
    registered_confs,                   \* the configuration of each observer
    matrix_call,                        \* the create_dispatch_matrix_and_event_vector
                                        \* call made: its receipts and result, or None
    filter_call,                        \* the filter_observers call made on its
                                        \* own: arguments and result, or None
    \* ---- StackerDBChannel (event_dispatcher.rs:117-129)
    sender_info,                        \* None or the registered channel id
    receiver_alive,                     \* channel ids whose Receiver exists
    channel_events,                     \* channel id -> events queued on it
    register_returned,                  \* channel id -> the bool the
                                        \* register_miner_coordinator call that
                                        \* made it returned
    mutex_holder,                       \* who holds the sender_info Mutex: None
                                        \* or the thread
    interested_receiver,                \* local of process_new_stackerdb_chunks:
                                        \* None or the sender is_active cloned
    \* ---- one dispatch call on the chain-processing thread
    call,                               \* the process_* function called, or "none"
    call_pc,                            \* "idle", "forward", "running", "returned"
    interested_observers,               \* sequence of observer indices
    pos,                                \* position of the for loop in it
    payload,                            \* payload of the call
    sp_pc,                              \* send_payload: "none","attempt","sleep","returned"
    requests,                           \* send_request calls of this send_payload
    failures,                           \* of those, the ones that did not end in 200
    last_result,                        \* result of the send_request just made
    sp_requests,                        \* distinct requests built by this send_payload
    contacted,                          \* observers a request was sent to
    acked,                              \* observers whose send_payload returned
    \* ---- storage: headers DB and staging blocks DB
    chain,                              \* block id -> header and stored size
    \* ---- RPCNakamotoTenureRequestHandler and one request
    rpc_request,                        \* the request on the wire, or None
    block_id,                           \* the handler's field
    rpc_pc,                             \* "idle","parsed","streaming","done",
                                        \* "failed","error","finished"
    rpc_status,                         \* status of the response, 0: none
    \* ---- NakamotoTenureStream
    stream,                             \* the stream's fields, or None
    response_body,                      \* bytes emitted in this response
    visited,                            \* blocks the cursor was on, in order
    send_more,                          \* what next_block returned in the last
                                        \* pull: "Err","false","true"; "none"
                                        \* when the pull did not call it
    \* ---- the client that continues a tenure
    client_pc,                          \* "idle","waiting","continue",
                                        \* "complete","failed"
    first_block,                        \* block id of its first request
    client_blocks,                      \* blocks received, in order
    client_requests,                    \* requests made (saturating)
    last_new,                           \* blocks the last response added
    \* ---- one send_request call, step by step (lines 340-533)
    sr_pc,                              \* "idle","connect","connected","sending",
                                        \* "receiving","returned"
    sr_request,                         \* the request argument, or None
    addrs,                              \* socket addresses host:port resolved to
    addr_i,                             \* addresses the for loop has tried
    last_err,                           \* last_err of the connect loop
    connections,                        \* sockets connected
    handed,                             \* times request.send gave the request
                                        \* to the handle
    elapsed,                            \* time since start, up to Timeout + 1
    sr_result,                          \* None, or what send_request returned
    sr_message                          \* the message of the io::Error made

dispatcherVars == <<registered_observers, any_event_observers_lookup,
                    burn_block_observers_lookup, mempool_observers_lookup,
                    microblock_observers_lookup, miner_observers_lookup,
                    mined_microblocks_observers_lookup, stackerdb_observers_lookup,
                    stx_observers_lookup, block_proposal_observers_lookup,
                    contract_events_observers_lookup, assets_observers_lookup,
                    registered_confs, matrix_call, filter_call>>
\* the registry: what register_observer writes
registryVars == <<registered_observers, any_event_observers_lookup,
                  burn_block_observers_lookup, mempool_observers_lookup,
                  microblock_observers_lookup, miner_observers_lookup,
                  mined_microblocks_observers_lookup, stackerdb_observers_lookup,
                  stx_observers_lookup, block_proposal_observers_lookup,
                  contract_events_observers_lookup, assets_observers_lookup,
                  registered_confs>>
slotVars == <<sender_info, receiver_alive, channel_events, register_returned>>
channelVars == <<slotVars, interested_receiver, mutex_holder>>
callVars == <<call, call_pc, interested_observers, pos, payload>>
sendVars == <<sp_pc, requests, failures, last_result, sp_requests>>
deliveryLog == <<contacted, acked>>

deliveryVars == <<dispatcherVars, channelVars, callVars, sendVars, deliveryLog>>
rpcVars == <<rpc_request, block_id, rpc_pc, rpc_status>>
streamVars == <<stream, response_body, visited, send_more>>
clientVars == <<client_pc, first_block, client_blocks, client_requests, last_new>>
tenureVars == <<chain, rpcVars, streamVars, clientVars>>

requestVars == <<sr_pc, sr_request, addrs, addr_i, last_err, connections,
                 handed, elapsed, sr_result, sr_message>>
vars == <<deliveryVars, tenureVars, requestVars>>


(***************************************************************************)
(* Paths (event_dispatcher.rs:94-104).  A path is a sequence of tokens; a  *)
(* leading "/" is a token of its own, as the one send_payload tests for.   *)
(***************************************************************************)
PATH_MICROBLOCK_SUBMIT == <<"new_microblocks">>
PATH_MEMPOOL_TX_SUBMIT == <<"new_mempool_tx">>
PATH_MEMPOOL_TX_DROP == <<"drop_mempool_tx">>
PATH_MINED_BLOCK == <<"mined_block">>
PATH_MINED_MICROBLOCK == <<"mined_microblock">>
PATH_MINED_NAKAMOTO_BLOCK == <<"mined_nakamoto_block">>
PATH_STACKERDB_CHUNKS == <<"stackerdb_chunks">>
PATH_BURN_BLOCK_SUBMIT == <<"new_burn_block">>
PATH_BLOCK_PROCESSED == <<"new_block">>

\* the path each dispatch call posts to (the send_* wrappers, lines 740-798,
\* and process_chain_tip's direct call, line 1328)
PathOf(c) ==
    CASE c = "process_burn_block" -> PATH_BURN_BLOCK_SUBMIT
      [] c = "process_new_mempool_txs" -> PATH_MEMPOOL_TX_SUBMIT
      [] c = "process_dropped_mempool_txs" -> PATH_MEMPOOL_TX_DROP
      [] c = "process_new_microblocks" -> PATH_MICROBLOCK_SUBMIT
      [] c = "process_mined_block_event" -> PATH_MINED_BLOCK
      [] c = "process_mined_microblock_event" -> PATH_MINED_MICROBLOCK
      [] c = "process_mined_nakamoto_block_event" -> PATH_MINED_NAKAMOTO_BLOCK
      [] c = "process_new_stackerdb_chunks" -> PATH_STACKERDB_CHUNKS
      [] c = "process_chain_tip" -> PATH_BLOCK_PROCESSED

\* EventObserver.endpoint of observer o: "host:port", one token
Endpoint(o) == <<<<"endpoint", o>>>>

\* send_payload, lines 541-550: join the endpoint and the path, adding the
\* slash the path lacks
JoinedComponents(endpoint, path) ==
    IF path # <<>> /\ path[1] = "/"
    THEN endpoint \o path
    ELSE endpoint \o <<"/">> \o path

\* url.path(): what follows the host:port token
UrlPath(url) == SubSeq(url, 2, Len(url))

\* the request one loop iteration builds (lines 561-568)
NewRequest(o, path, body) ==
    [peerhost |-> Endpoint(o)[1],
     verb |-> "POST",
     path |-> UrlPath(JoinedComponents(Endpoint(o), path)),
     body |-> body,
     connection |-> "close"]

(***************************************************************************)
(* send_request (lines 340-533), seen from its caller: what the connection *)
(* and the protocol engine produced decides the result.                    *)
(***************************************************************************)
ResponseStatuses == {200, 201, 204}
ErrorStatuses == {404, 500}

EngineOutcomes ==
    [kind : {"Response"}, status : ResponseStatuses]
    \cup [kind : {"Error"}, status : ErrorStatuses]
    \cup [kind : {"Request", "ConnectTimeout", "ReadError", "WriteError",
                  "RecvTimeout", "Deadline", "ConnectionError"},
          status : {0}]

Ok(status) == [ok |-> TRUE, status |-> status, err |-> None]
Err(kind) == [ok |-> FALSE, status |-> 0, err |-> kind]

\* kinds of the io::Error a socket read or write fails with
IoErrorKinds == {"ConnectionReset", "BrokenPipe"}

\* the NetError values the engine fails with: a read or a write failure
\* carries the io::Error of the socket
NetErrors ==
    [variant : {"ReadError", "WriteError"}, ioe : IoErrorKinds]
    \cup [variant : {"RecvTimeout", "ConnectionError"}, ioe : {"none"}]

\* mutant: the receive timeout of the engine is one more generic failure
handle_net_error_RecvTimeoutIsOther(e) ==
    CASE e.variant = "ReadError" -> Err(e.ioe)
      [] e.variant = "WriteError" -> Err(e.ioe)
      [] OTHER -> Err("Other")

\* lines 322-332
handle_net_error(e) ==
    CASE e.variant = "ReadError" -> Err(e.ioe)
      [] e.variant = "WriteError" -> Err(e.ioe)
      [] e.variant = "RecvTimeout" -> Err("WouldBlock")
      [] OTHER -> Err("Other")

send_request(e) ==
    CASE e.kind = "ConnectTimeout" -> Err("TimedOut")          \* lines 352-370
      [] e.kind = "Deadline" -> Err("WouldBlock")              \* lines 454-459, 502-507
      [] e.kind \in {"ReadError", "WriteError"}
            -> handle_net_error([variant |-> e.kind, ioe |-> "ConnectionReset"])
      [] e.kind \in {"RecvTimeout", "ConnectionError"}
            -> handle_net_error([variant |-> e.kind, ioe |-> "none"])
      [] e.kind = "Response" -> Ok(e.status)                   \* lines 512, 532
      [] e.kind = "Error" -> Err("Other")                      \* lines 513-523
      [] OTHER -> Err("Other")                                 \* lines 524-529

(***************************************************************************)
(* send_request step by step: the connect loop, the set-up of the socket   *)
(* and of the request handle, the loop that drives the request out, the    *)
(* loop that drives the response in, and the decoding of the message.      *)
(***************************************************************************)
\* results of the calls into the engine
NetOk(v) == [ok |-> TRUE, v |-> v]
NetErr(e) == [ok |-> FALSE, e |-> e]
NetFailures == {NetErr(e) : e \in NetErrors}

\* request paths of the calls
RequestPaths == {PATH_STACKERDB_CHUNKS, PATH_BLOCK_PROCESSED}

\* TcpStream::connect_timeout on one address (line 354)
ConnectOutcomes == {"Ok", "TimedOut", "ConnectionRefused"}

\* StacksHttpMessage values the handle can yield (lines 511-530)
StacksHttpMessages(path) ==
    [kind : {"Response"}, status : ResponseStatuses, path : {path}]
    \cup [kind : {"Error"}, status : ErrorStatuses, path : {path}]
    \cup [kind : {"Request"}, status : {0}, path : {path}]

\* try_recv has no message yet and gives the handle back (line 490)
NoMessage == [kind |-> "None", status |-> 0, path |-> <<>>]

\* the clock: time passes while an iteration runs
Ticks == {0, 1}
now(dt) == Min(elapsed + dt, Timeout + 1)

\* mutant: the loops never look at the clock
deadline_passed_Never(t) == FALSE

\* "Instant::now().saturating_duration_since(start) > timeout" (lines 454, 502)
deadline_passed(t) == t > Timeout

\* what one step of send_request decides: to go on, or to return a value
Continue(pc) == [return |-> FALSE, pc |-> pc, result |-> None, message |-> <<>>]
Return(res, msg) == [return |-> TRUE, pc |-> "returned", result |-> res, message |-> msg]

\* mutant: an iteration that fails is run again
send_iteration_RetriesOnError(flushed, num_sent, t) ==
    IF ~flushed.ok \/ ~num_sent.ok
    THEN IF deadline_passed(t)
         THEN Return(Err("WouldBlock"), <<"Timed out while receiving request">>)
         ELSE Continue("sending")
    ELSE IF flushed.v /\ num_sent.v = 0
         THEN Continue("receiving")
         ELSE IF deadline_passed(t)
              THEN Return(Err("WouldBlock"), <<"Timed out while receiving request">>)
              ELSE Continue("sending")

\* one iteration of the loop of lines 436-460
send_iteration(flushed, num_sent, t) ==
    IF ~flushed.ok
    THEN Return(handle_net_error(flushed.e), <<"Failed to flush request body">>)
    ELSE IF ~num_sent.ok
         THEN Return(handle_net_error(num_sent.e), <<"Failed to send socket data">>)
         ELSE IF flushed.v /\ num_sent.v = 0
              THEN Continue("receiving")
              ELSE IF deadline_passed(t)
                   THEN Return(Err("WouldBlock"),
                               <<"Timed out while receiving request">>)
                   ELSE Continue("sending")

\* mutant: a message that is not a response is dropped and the loop goes on
decode_WaitsForResponse(response) ==
    CASE response.kind = "Response" -> Return(Ok(response.status), <<>>)
      [] response.kind = "Error" ->
             Return(Err("Other"),
                    <<"Request did not succeed", response.status, response.path>>)
      [] OTHER -> Continue("receiving")

\* lines 510-532
decode(response) ==
    CASE response.kind = "Response" -> Return(Ok(response.status), <<>>)
      [] response.kind = "Error" ->
             Return(Err("Other"),
                    <<"Request did not succeed", response.status, response.path>>)
      [] OTHER -> Return(Err("Other"), <<"Did not receive an HTTP response">>)

\* one iteration of the loop of lines 467-508, and the decoding that follows
\* the break; try_recv yields a message, or the handle back, or fails
recv_iteration(nr, resp, t) ==
    IF ~nr.ok
    THEN Return(handle_net_error(nr.e), <<"Failed to receive socket data">>)
    ELSE IF ~resp.ok
         THEN Return(handle_net_error(resp.e),
                     <<"Failed to receive message after socket has been drained">>)
         ELSE IF resp.v # NoMessage
              THEN decode(resp.v)
              ELSE IF deadline_passed(t)
                   THEN Return(Err("WouldBlock"),
                               <<"Timed out while receiving request">>)
                   ELSE Continue("receiving")

\* the step taken: the call goes on at step.pc or returns step.result
Take(step) ==
    /\ sr_pc' = step.pc
    /\ sr_result' = step.result
    /\ sr_message' = step.message

\* entry, lines 340-351: the addresses host:port resolves to
SendRequestCall ==
    /\ sr_pc = "idle"
    /\ \E path \in RequestPaths : sr_request' = Some([path |-> path])
    /\ \E n \in 0 .. MaxAddrs : addrs' = n
    /\ sr_pc' = "connect"
    /\ UNCHANGED <<addr_i, last_err, connections, handed, elapsed, sr_result,
                   sr_message>>
    /\ UNCHANGED <<deliveryVars, tenureVars>>

\* lines 352-370: one iteration of the for loop, or its end with no socket
SendRequestConnect ==
    /\ sr_pc = "connect"
    /\ IF addr_i < addrs
       THEN \E c \in ConnectOutcomes :
               /\ addr_i' = addr_i + 1
               /\ IF c = "Ok"
                  THEN /\ connections' = connections + 1
                       /\ sr_pc' = "connected"
                       /\ UNCHANGED last_err
                  ELSE /\ last_err' = Some(c)
                       /\ UNCHANGED <<connections, sr_pc>>
               /\ UNCHANGED <<sr_result, sr_message>>
       ELSE /\ Take(IF last_err # None
                    THEN Return(Err(last_err.some), <<>>)
                    ELSE Return(Err("Other"), <<"Unable to connect">>))
            /\ UNCHANGED <<addr_i, last_err, connections>>
    /\ UNCHANGED <<sr_request, addrs, handed, elapsed>>
    /\ UNCHANGED <<deliveryVars, tenureVars>>

\* lines 372-431: the socket options, start, the request handle and
\* request.send
SendRequestSetup ==
    /\ sr_pc = "connected"
    /\ \/ \E ioe \in IoErrorKinds :
             /\ Take(Return(Err(ioe), <<>>))
             /\ UNCHANGED <<handed, elapsed>>
       \/ /\ Take(Return(Err("Other"), <<"Failed to create request handle">>))
          /\ UNCHANGED <<handed, elapsed>>
       \/ \E e \in NetErrors :
             /\ Take(Return(handle_net_error(e),
                            <<"Failed to serialize request body">>))
             /\ elapsed' = 0
             /\ UNCHANGED handed
       \/ /\ Take(Continue("sending"))
          /\ elapsed' = 0
          /\ handed' = handed + 1
    /\ UNCHANGED <<sr_request, addrs, addr_i, last_err, connections>>
    /\ UNCHANGED <<deliveryVars, tenureVars>>

\* lines 436-460, an iteration that takes dt
SendRequestSend(dt) ==
    /\ sr_pc = "sending"
    /\ \E flushed \in {NetOk(TRUE), NetOk(FALSE)} \cup NetFailures,
          num_sent \in {NetOk(0), NetOk(1)} \cup NetFailures :
          Take(send_iteration(flushed, num_sent, now(dt)))
    /\ elapsed' = now(dt)
    /\ UNCHANGED <<sr_request, addrs, addr_i, last_err, connections, handed>>
    /\ UNCHANGED <<deliveryVars, tenureVars>>

\* lines 467-532, an iteration that takes dt
SendRequestRecv(dt) ==
    /\ sr_pc = "receiving"
    /\ \E nr \in {NetOk(0), NetOk(1)} \cup NetFailures,
          resp \in {NetOk(NoMessage)}
                   \cup {NetOk(m) : m \in StacksHttpMessages(sr_request.some.path)}
                   \cup NetFailures :
          Take(recv_iteration(nr, resp, now(dt)))
    /\ elapsed' = now(dt)
    /\ UNCHANGED <<sr_request, addrs, addr_i, last_err, connections, handed>>
    /\ UNCHANGED <<deliveryVars, tenureVars>>

\* mutant: any response that is not an error ends the loop
SendPayloadBreaks_AnyResponse(res) == res.ok

\* mutant: the loop has no break
SendPayloadBreaks_Never(res) == FALSE

\* the one test that ends the retry loop (lines 571-576)
SendPayloadBreaks(res) == res.ok /\ res.status = 200

(***************************************************************************)
(* EventDispatcher                                                         *)
(***************************************************************************)
\* keys of smart contract events and identifiers of assets
ContractEventKeys == {"k1", "k2"}
AssetIdentifiers == {"nft-asset", "ft-asset"}

\* EventKeyType (matched at lines 1628-1684)
AnyEvent == <<"AnyEvent">>
BurnchainBlocks == <<"BurnchainBlocks">>
MemPoolTransactions == <<"MemPoolTransactions">>
Microblocks == <<"Microblocks">>
MinedBlocks == <<"MinedBlocks">>
MinedMicroblocks == <<"MinedMicroblocks">>
StackerDBChunks == <<"StackerDBChunks">>
STXEvent == <<"STXEvent">>
BlockProposal == <<"BlockProposal">>
SmartContractEvent(event_key) == <<"SmartContractEvent", event_key>>
AssetEvent(event_key) == <<"AssetEvent", event_key>>

EventKeyTypes ==
    {AnyEvent, BurnchainBlocks, MemPoolTransactions, Microblocks,
     MinedBlocks, MinedMicroblocks, StackerDBChunks, STXEvent, BlockProposal}
    \cup {SmartContractEvent(k) : k \in ContractEventKeys}
    \cup {AssetEvent(a) : a \in AssetIdentifiers}

\* the configurations observers register with, for the delivery calls
ObserverConfigs ==
    {{}, {AnyEvent}, {BurnchainBlocks},
     {MemPoolTransactions, Microblocks},
     {MinedBlocks, MinedMicroblocks, StackerDBChunks}}

\* the configurations observers register with, for the dispatch matrix
MatrixConfigs ==
    {{AnyEvent},
     {SmartContractEvent("k1")},
     {AssetEvent("nft-asset")},
     {STXEvent},
     {SmartContractEvent("k2"), AssetEvent("ft-asset"), STXEvent},
     {BurnchainBlocks, BlockProposal},
     {AnyEvent, SmartContractEvent("k1")}}

Observers == 0 .. (registered_observers - 1)

\* lines 1396-1411: iterate registered_observers by index, keep an observer
\* whose index is in lookup or, with include_any, in the any-event set
RECURSIVE filter_from_AlwaysAny(_, _, _)
\* mutant: include_any is not looked at
filter_from_AlwaysAny(obs_id, lookup, include_any) ==
    IF obs_id >= registered_observers THEN <<>>
    ELSE (IF obs_id \in lookup \/ obs_id \in any_event_observers_lookup
          THEN <<obs_id>>
          ELSE <<>>)
         \o filter_from_AlwaysAny(obs_id + 1, lookup, include_any)

RECURSIVE filter_from(_, _, _)
filter_from(obs_id, lookup, include_any) ==
    IF obs_id >= registered_observers THEN <<>>
    ELSE (IF obs_id \in lookup THEN <<obs_id>>
          ELSE IF include_any /\ obs_id \in any_event_observers_lookup
               THEN <<obs_id>>
               ELSE <<>>)
         \o filter_from(obs_id + 1, lookup, include_any)

filter_observers(lookup, include_any) == filter_from(0, lookup, include_any)

\* registered_observers.iter().enumerate() (lines 1302, 1590)
AllObservers == [i \in 1 .. registered_observers |-> i - 1]

\* mutant: the index is taken after the observer was counted
observer_index_OneBased == registered_observers + 1

\* line 1625
observer_index == registered_observers

\* lines 1630-1642, 1657-1666: the index enters the set of each key of the
\* configuration, a set made at the key's first use
insert_by_key(lookup, event_keys) ==
    [k \in DOMAIN lookup \cup event_keys |->
        (IF k \in DOMAIN lookup THEN lookup[k] ELSE {})
        \cup (IF k \in event_keys THEN {observer_index} ELSE {})]

\* lines 1619-1688; observers register before the dispatcher is used
register_observer(conf) ==
    /\ call_pc = "idle"
    /\ matrix_call = None
    /\ filter_call = None
    /\ registered_observers < NumObservers
    /\ LET Add(lookup, key) ==
               IF key \in conf THEN lookup \cup {observer_index} ELSE lookup
       IN  /\ any_event_observers_lookup' = Add(any_event_observers_lookup, AnyEvent)
           /\ burn_block_observers_lookup' =
                  Add(burn_block_observers_lookup, BurnchainBlocks)
           /\ mempool_observers_lookup' =
                  Add(mempool_observers_lookup, MemPoolTransactions)
           /\ microblock_observers_lookup' =
                  Add(microblock_observers_lookup, Microblocks)
           /\ miner_observers_lookup' = Add(miner_observers_lookup, MinedBlocks)
           /\ mined_microblocks_observers_lookup' =
                  Add(mined_microblocks_observers_lookup, MinedMicroblocks)
           /\ stackerdb_observers_lookup' =
                  Add(stackerdb_observers_lookup, StackerDBChunks)
           /\ stx_observers_lookup' = Add(stx_observers_lookup, STXEvent)
           /\ block_proposal_observers_lookup' =
                  Add(block_proposal_observers_lookup, BlockProposal)
           /\ contract_events_observers_lookup' =
                  insert_by_key(contract_events_observers_lookup,
                      {k \in ContractEventKeys : SmartContractEvent(k) \in conf})
           /\ assets_observers_lookup' =
                  insert_by_key(assets_observers_lookup,
                      {a \in AssetIdentifiers : AssetEvent(a) \in conf})
           /\ registered_observers' = registered_observers + 1
           /\ registered_confs' = Append(registered_confs, conf)
    /\ UNCHANGED <<matrix_call, filter_call>>
    /\ UNCHANGED <<channelVars, callVars, sendVars, deliveryLog>>
    /\ UNCHANGED <<tenureVars, requestVars>>

(***************************************************************************)
(* The dispatch matrix of a batch of receipts.                             *)
(***************************************************************************)
\* StacksTransactionEvent, the variants matched at lines 1183-1245
StacksTransactionEvents ==
    [type : {"SmartContractEvent"}, subtype : {"-"}, key : ContractEventKeys]
    \cup [type : {"STXEvent"}, key : {"-"},
          subtype : {"STXTransferEvent", "STXMintEvent", "STXBurnEvent", "STXLockEvent"}]
    \cup [type : {"NFTEvent"}, key : {"nft-asset"},
          subtype : {"NFTTransferEvent", "NFTMintEvent", "NFTBurnEvent"}]
    \cup [type : {"FTEvent"}, key : {"ft-asset"},
          subtype : {"FTTransferEvent", "FTMintEvent", "FTBurnEvent"}]

\* the batches: up to MaxEvents events, the first half in a committed
\* receipt and the rest in a receipt whose post-condition aborted
ReceiptBatches ==
    UNION {
        {<<[txid |-> "tx1", post_condition_aborted |-> FALSE,
            events |-> SubSeq(es, 1, (n + 1) \div 2)],
           [txid |-> "tx2", post_condition_aborted |-> TRUE,
            events |-> SubSeq(es, (n + 1) \div 2 + 1, n)]>> :
              es \in [1 .. n -> StacksTransactionEvents]}
        : n \in 0 .. MaxEvents}

\* "for o_i in observer_indexes { dispatch_matrix[*o_i as usize].insert(i); }"
insert_for(observer_indexes, i, dispatch_matrix) ==
    [o \in DOMAIN dispatch_matrix |->
        IF (o - 1) \in observer_indexes
        THEN dispatch_matrix[o] \cup {i}
        ELSE dispatch_matrix[o]]

\* mutant: the stx subscribers are taken for those of the contract event
insert_contract_event_observers_UsesStxLookup(key, i, dispatch_matrix) ==
    insert_for(stx_observers_lookup, i, dispatch_matrix)

\* lines 1184-1192
insert_contract_event_observers(key, i, dispatch_matrix) ==
    IF key \in DOMAIN contract_events_observers_lookup
    THEN insert_for(contract_events_observers_lookup[key], i, dispatch_matrix)
    ELSE dispatch_matrix

\* mutant: every asset subscriber is taken, whatever asset it named
update_dispatch_matrix_if_observer_subscribed_AnyAsset(asset_identifier, event_index, dispatch_matrix) ==
    insert_for(UNION {assets_observers_lookup[a] : a \in DOMAIN assets_observers_lookup},
               event_index, dispatch_matrix)

\* lines 1606-1617
update_dispatch_matrix_if_observer_subscribed(asset_identifier, event_index, dispatch_matrix) ==
    IF asset_identifier \in DOMAIN assets_observers_lookup
    THEN insert_for(assets_observers_lookup[asset_identifier],
                    event_index, dispatch_matrix)
    ELSE dispatch_matrix

\* mutant: the any-event subscribers get only the events no topic matched
insert_any_event_observers_IfUnmatched(i, dispatch_matrix) ==
    IF \E o \in DOMAIN dispatch_matrix : i \in dispatch_matrix[o]
    THEN dispatch_matrix
    ELSE insert_for(any_event_observers_lookup, i, dispatch_matrix)

\* lines 1247-1249
insert_any_event_observers(i, dispatch_matrix) ==
    insert_for(any_event_observers_lookup, i, dispatch_matrix)

\* mutant: the committed flag is the aborted flag of the receipt
dispatch_event_CommittedIsAborted(st, receipt, event) ==
    LET matched ==
            CASE event.type = "SmartContractEvent" ->
                     insert_contract_event_observers(event.key, st.i, st.dispatch_matrix)
              [] event.type = "STXEvent" ->
                     insert_for(stx_observers_lookup, st.i, st.dispatch_matrix)
              [] event.type \in {"NFTEvent", "FTEvent"} ->
                     update_dispatch_matrix_if_observer_subscribed(
                         event.key, st.i, st.dispatch_matrix)
    IN  [dispatch_matrix |-> insert_any_event_observers(st.i, matched),
         events |-> Append(st.events,
                           [committed |-> receipt.post_condition_aborted,
                            txid |-> receipt.txid,
                            event |-> event]),
         i |-> st.i + 1]

\* the body of the inner loop, lines 1183-1250
dispatch_event(st, receipt, event) ==
    LET matched ==
            CASE event.type = "SmartContractEvent" ->
                     insert_contract_event_observers(event.key, st.i, st.dispatch_matrix)
              [] event.type = "STXEvent" ->
                     insert_for(stx_observers_lookup, st.i, st.dispatch_matrix)
              [] event.type \in {"NFTEvent", "FTEvent"} ->
                     update_dispatch_matrix_if_observer_subscribed(
                         event.key, st.i, st.dispatch_matrix)
    IN  [dispatch_matrix |-> insert_any_event_observers(st.i, matched),
         events |-> Append(st.events,
                           [committed |-> ~receipt.post_condition_aborted,
                            txid |-> receipt.txid,
                            event |-> event]),
         i |-> st.i + 1]

RECURSIVE events_loop(_, _, _)
\* "for event in receipt.events.iter()" (line 1182)
events_loop(st, receipt, e) ==
    IF e > Len(receipt.events) THEN st
    ELSE events_loop(dispatch_event(st, receipt, receipt.events[e]), receipt, e + 1)

RECURSIVE receipts_loop(_, _, _)
\* "for receipt in receipts" (line 1180)
receipts_loop(st, receipts, r) ==
    IF r > Len(receipts) THEN st
    ELSE receipts_loop(events_loop(st, receipts[r], 1), receipts, r + 1)

\* lines 1165-1255
create_dispatch_matrix_and_event_vector(receipts) ==
    LET st == receipts_loop([dispatch_matrix |-> [o \in 1 .. registered_observers |-> {}],
                             events |-> <<>>,
                             i |-> 0],
                            receipts, 1)
    IN  [dispatch_matrix |-> st.dispatch_matrix, events |-> st.events]

\* a call of create_dispatch_matrix_and_event_vector (as at lines 1276, 1358)
CreateDispatchMatrix ==
    /\ call_pc = "idle"
    /\ matrix_call = None
    /\ filter_call = None
    /\ \E receipts \in ReceiptBatches :
          LET res == create_dispatch_matrix_and_event_vector(receipts)
          IN  matrix_call' = Some([receipts |-> receipts,
                                   dispatch_matrix |-> res.dispatch_matrix,
                                   events |-> res.events])
    /\ UNCHANGED filter_call
    /\ UNCHANGED <<registered_observers, any_event_observers_lookup,
                   burn_block_observers_lookup, mempool_observers_lookup,
                   microblock_observers_lookup, miner_observers_lookup,
                   mined_microblocks_observers_lookup, stackerdb_observers_lookup,
                   stx_observers_lookup, block_proposal_observers_lookup,
                   contract_events_observers_lookup, assets_observers_lookup,
                   registered_confs>>
    /\ UNCHANGED <<channelVars, callVars, sendVars, deliveryLog, tenureVars, requestVars>>

\* a call of filter_observers with any interest set
FilterObservers ==
    /\ call_pc = "idle"
    /\ matrix_call = None
    /\ filter_call = None
    /\ \E lookup \in SUBSET (0 .. (NumObservers - 1)), include_any \in BOOLEAN :
          filter_call' = Some([lookup |-> lookup,
                               include_any |-> include_any,
                               observers |-> filter_observers(lookup, include_any)])
    /\ UNCHANGED matrix_call
    /\ UNCHANGED <<registered_observers, any_event_observers_lookup,
                   burn_block_observers_lookup, mempool_observers_lookup,
                   microblock_observers_lookup, miner_observers_lookup,
                   mined_microblocks_observers_lookup, stackerdb_observers_lookup,
                   stx_observers_lookup, block_proposal_observers_lookup,
                   contract_events_observers_lookup, assets_observers_lookup,
                   registered_confs>>
    /\ UNCHANGED <<channelVars, callVars, sendVars, deliveryLog, tenureVars, requestVars>>

(***************************************************************************)
(* StackerDBChannel: the single slot and the channels made for it.  A      *)
(* channel is known by its number; channel_events[c] counts the events     *)
(* sent on it, receiver_alive holds the channels whose Receiver exists.    *)
(***************************************************************************)
ContractIds == [is_boot : BOOLEAN, starts_with_signers : BOOLEAN]

\* lines 168-177
new_miner_receiver(c) ==
    [sender |-> c, interested_in_signers |-> TRUE, other_interests |-> {}]

\* mutant: the call always reports a displaced registration
replaced_receiver_AlwaysTrue == TRUE

\* line 218: sender_info.replace(new_sender).is_some()
replaced_receiver == sender_info # None

\* mutant: a registration already in the slot is kept
register_miner_coordinator_KeepsPrior ==
    /\ mutex_holder = None
    /\ LET c == Len(channel_events) + 1
       IN  /\ channel_events' = Append(channel_events, 0)
           /\ receiver_alive' = receiver_alive \cup {c}
           /\ sender_info' = IF sender_info = None
                             THEN new_miner_receiver(c)
                             ELSE sender_info
           /\ register_returned' = Append(register_returned, replaced_receiver)
    /\ mutex_holder' = None
    /\ UNCHANGED <<interested_receiver, dispatcherVars, callVars, sendVars,
                   deliveryLog>>
    /\ UNCHANGED <<tenureVars, requestVars>>

\* lines 212-221
register_miner_coordinator ==
    /\ mutex_holder = None
    /\ LET c == Len(channel_events) + 1
       IN  /\ channel_events' = Append(channel_events, 0)
           /\ receiver_alive' = receiver_alive \cup {c}
           /\ sender_info' = new_miner_receiver(c)
           /\ register_returned' = Append(register_returned, replaced_receiver)
    /\ mutex_holder' = None
    /\ UNCHANGED <<interested_receiver, dispatcherVars, callVars, sendVars,
                   deliveryLog>>
    /\ UNCHANGED <<tenureVars, requestVars>>

\* mutant: the slot is cleared only when it holds the registration the
\* receiver belongs to
replace_receiver_OnlyOwn(receiver) ==
    /\ receiver \in receiver_alive
    /\ mutex_holder = None
    /\ mutex_holder' = None
    /\ receiver_alive' = receiver_alive \ {receiver}
    /\ sender_info' = IF sender_info # None /\ sender_info.sender = receiver
                      THEN None
                      ELSE sender_info
    /\ UNCHANGED <<channel_events, register_returned, interested_receiver,
                   dispatcherVars, callVars, sendVars, deliveryLog>>
    /\ UNCHANGED <<tenureVars, requestVars>>

\* lines 194-203
replace_receiver(receiver) ==
    /\ receiver \in receiver_alive
    /\ mutex_holder = None
    /\ mutex_holder' = None
    /\ receiver_alive' = receiver_alive \ {receiver}
    /\ sender_info' = None
    /\ UNCHANGED <<channel_events, register_returned, interested_receiver,
                   dispatcherVars, callVars, sendVars, deliveryLog>>
    /\ UNCHANGED <<tenureVars, requestVars>>

\* the values an InnerStackerDBChannel can have (lines 117-129)
InnerStackerDBChannels ==
    [sender : 1 .. MaxRegistrations,
     interested_in_signers : BOOLEAN,
     other_interests : SUBSET ContractIds]

\* mutant: the signers interest does not ask for a boot contract
is_active_on_IgnoresBoot(guard, stackerdb) ==
    IF guard = None THEN None
    ELSE IF /\ guard.interested_in_signers
            /\ stackerdb.starts_with_signers
         THEN Some(guard.sender)
         ELSE IF stackerdb \in guard.other_interests
              THEN Some(guard.sender)
              ELSE None

\* lines 234-244: the body of is_active on the value found under the lock
is_active_on(guard, stackerdb) ==
    IF guard = None THEN None
    ELSE IF /\ guard.interested_in_signers
            /\ stackerdb.is_boot
            /\ stackerdb.starts_with_signers
         THEN Some(guard.sender)
         ELSE IF stackerdb \in guard.other_interests
              THEN Some(guard.sender)
              ELSE None

\* mutant: the lock is still held when is_active has returned, as if the
\* guard were handed to the caller with the sender
is_active_guard_HeldByCaller == Some("dispatcher")

\* the Mutex when is_active has returned: guard is a local of is_active
\* (line 230) and is dropped at its return
is_active_guard == None

\* lines 225-245: the sender to forward to, or None
is_active(stackerdb) == is_active_on(sender_info, stackerdb)

\* mutant: the event is queued twice
channel_send_Twice(channel) ==
    IF /\ channel # None
       /\ channel.some \in receiver_alive
    THEN [channel_events EXCEPT ![channel.some] = @ + 2]
    ELSE channel_events

\* channel.send(event) of lines 1552-1559 on the sender is_active returned:
\* the event is queued if the Receiver of that channel exists, otherwise
\* the send fails and the failure is only logged
channel_send(channel) ==
    IF /\ channel # None
       /\ channel.some \in receiver_alive
    THEN [channel_events EXCEPT ![channel.some] = @ + 1]
    ELSE channel_events

(***************************************************************************)
(* One dispatch call: the interested observers are computed once, then     *)
(* send_payload runs for each in turn (the for loops of the process_*      *)
(* functions).                                                             *)
(***************************************************************************)
\* mutant: the observer is given every event of the batch
filtered_events_All(o, res) ==
    {<<i - 1, res.events[i]>> : i \in 1 .. Len(res.events)}

\* lines 1303-1306: the ids of the observer's set of the matrix, each paired
\* with the entry of the event vector at that id (the set is a HashSet: the
\* order of the pairs is that of its iterator, which the code does not fix)
filtered_events(o, res) ==
    {<<event_id, res.events[event_id + 1]>> : event_id \in res.dispatch_matrix[o + 1]}

\* event.json_serialize(event_index, txid, committed) (lines 819-826), by the
\* fields it writes
json_serialize(event, event_index, txid, committed) ==
    [event_index |-> event_index, txid |-> txid, committed |-> committed,
     event |-> event]

\* lines 800-826: the "events" of the new_block payload
make_new_block_processed_payload(filtered) ==
    {json_serialize(fe[2].event, fe[1], fe[2].txid, fe[2].committed) : fe \in filtered}

\* the new_block body process_chain_tip builds for observer o from the
\* matrix and event vector res (lines 1302-1327)
new_block_payload(o, res) ==
    <<"process_chain_tip", o, make_new_block_processed_payload(filtered_events(o, res))>>

\* the body handed to send_payload for observer o; process_chain_tip and
\* process_new_microblocks build it per observer (lines 1302-1328, 1378-1392)
PayloadFor(c, o) ==
    IF c = "process_chain_tip"
    THEN new_block_payload(o, matrix_call.some)
    ELSE IF c = "process_new_microblocks"
         THEN <<c, o>>
         ELSE <<c>>

\* entry of send_payload (lines 536-558)
EnterSendPayload(body) ==
    /\ sp_pc' = "attempt"
    /\ requests' = 0
    /\ failures' = 0
    /\ last_result' = None
    /\ sp_requests' = {}
    /\ payload' = body

\* "if interested_observers.len() < 1 { return; }" and the first iteration
BeginCall(c, interested) ==
    IF Len(interested) < 1
    THEN /\ call' = c
         /\ call_pc' = "returned"
         /\ UNCHANGED <<interested_observers, pos, payload, sendVars>>
    ELSE /\ call' = c
         /\ call_pc' = "running"
         /\ interested_observers' = interested
         /\ pos' = 1
         /\ EnterSendPayload(PayloadFor(c, interested[1]))

NoDeliveryYet == UNCHANGED <<dispatcherVars, deliveryLog, tenureVars, requestVars>>

\* lines 1131-1156
process_burn_block ==
    /\ call_pc = "idle"
    /\ BeginCall("process_burn_block",
                 filter_observers(burn_block_observers_lookup, TRUE))
    /\ NoDeliveryYet /\ UNCHANGED channelVars

\* lines 1413-1426
process_new_mempool_txs ==
    /\ call_pc = "idle"
    /\ BeginCall("process_new_mempool_txs",
                 filter_observers(mempool_observers_lookup, TRUE))
    /\ NoDeliveryYet /\ UNCHANGED channelVars

\* lines 1566-1587
process_dropped_mempool_txs ==
    /\ call_pc = "idle"
    /\ BeginCall("process_dropped_mempool_txs",
                 filter_observers(mempool_observers_lookup, TRUE))
    /\ NoDeliveryYet /\ UNCHANGED channelVars

\* lines 1336-1394
process_new_microblocks ==
    /\ call_pc = "idle"
    /\ BeginCall("process_new_microblocks",
                 filter_observers(microblock_observers_lookup, TRUE))
    /\ NoDeliveryYet /\ UNCHANGED channelVars

\* mutant: the any-event observers get the mined block too
process_mined_block_event_IncludesAny ==
    /\ call_pc = "idle"
    /\ BeginCall("process_mined_block_event",
                 filter_observers(miner_observers_lookup, TRUE))
    /\ NoDeliveryYet /\ UNCHANGED channelVars

\* lines 1428-1457
process_mined_block_event ==
    /\ call_pc = "idle"
    /\ BeginCall("process_mined_block_event",
                 filter_observers(miner_observers_lookup, FALSE))
    /\ NoDeliveryYet /\ UNCHANGED channelVars

\* lines 1459-1484
process_mined_microblock_event ==
    /\ call_pc = "idle"
    /\ BeginCall("process_mined_microblock_event",
                 filter_observers(mined_microblocks_observers_lookup, FALSE))
    /\ NoDeliveryYet /\ UNCHANGED channelVars

\* lines 1486-1524
process_mined_nakamoto_block_event ==
    /\ call_pc = "idle"
    /\ BeginCall("process_mined_nakamoto_block_event",
                 filter_observers(miner_observers_lookup, FALSE))
    /\ NoDeliveryYet /\ UNCHANGED channelVars

\* "for (observer_id, filtered_events_ids) in dispatch_matrix.iter().enumerate()"
\* (line 1302): the index of every set of the matrix, in order
chain_tip_observers(dispatch_matrix) ==
    [i \in 1 .. Len(dispatch_matrix) |-> i - 1]

\* lines 1257-1331: the matrix of the receipts is built (line 1276), and
\* "if dispatch_matrix.len() > 0" every set of it gives one payload, sent to
\* the observer of its index
process_chain_tip(receipts) ==
    /\ call_pc = "idle"
    /\ matrix_call = None
    /\ LET res == create_dispatch_matrix_and_event_vector(receipts)
           observers == chain_tip_observers(res.dispatch_matrix)
       IN  /\ matrix_call' = Some([receipts |-> receipts,
                                    dispatch_matrix |-> res.dispatch_matrix,
                                    events |-> res.events])
           /\ call' = "process_chain_tip"
           /\ IF Len(res.dispatch_matrix) > 0
              THEN /\ call_pc' = "running"
                   /\ interested_observers' = observers
                   /\ pos' = 1
                   /\ EnterSendPayload(new_block_payload(observers[1], res))
              ELSE /\ call_pc' = "returned"
                   /\ UNCHANGED <<interested_observers, pos, payload, sendVars>>
    /\ UNCHANGED <<registryVars, filter_call, deliveryLog, channelVars>>
    /\ UNCHANGED <<tenureVars, requestVars>>

(***************************************************************************)
(* process_new_stackerdb_chunks, in the two steps other threads can come   *)
(* between: is_active takes the lock, clones the sender and releases the   *)
(* lock (line 1540); channel.send runs on the clone without the lock       *)
(* (lines 1552-1559) and the for loop over the observers follows.          *)
(***************************************************************************)
\* lines 1528-1543
process_new_stackerdb_chunks(contract_id) ==
    /\ call_pc = "idle"
    /\ mutex_holder = None
    /\ mutex_holder' = is_active_guard
    /\ call' = "process_new_stackerdb_chunks"
    /\ LET interested == filter_observers(stackerdb_observers_lookup, FALSE)
           channel == is_active(contract_id)
       IN  IF interested = <<>> /\ channel = None
           THEN /\ call_pc' = "returned"
                /\ UNCHANGED <<interested_observers, interested_receiver>>
           ELSE /\ call_pc' = "forward"
                /\ interested_observers' = interested
                /\ interested_receiver' = channel
    /\ UNCHANGED <<pos, payload, sendVars, slotVars>>
    /\ NoDeliveryYet

\* mutant: a failed send on the channel ends the call
process_new_stackerdb_chunks_send_ReturnsOnError ==
    /\ call_pc = "forward"
    /\ channel_events' = channel_send(interested_receiver)
    /\ IF interested_receiver # None /\ interested_receiver.some \notin receiver_alive
       THEN /\ call_pc' = "returned"
            /\ UNCHANGED <<call, interested_observers, pos, payload, sendVars>>
       ELSE BeginCall(call, interested_observers)
    /\ UNCHANGED <<sender_info, receiver_alive, register_returned,
                   interested_receiver, mutex_holder>>
    /\ NoDeliveryYet

\* lines 1545-1563: the send on the channel, then the for loop
process_new_stackerdb_chunks_send ==
    /\ call_pc = "forward"
    /\ channel_events' = channel_send(interested_receiver)
    /\ BeginCall(call, interested_observers)
    /\ UNCHANGED <<sender_info, receiver_alive, register_returned,
                   interested_receiver, mutex_holder>>
    /\ NoDeliveryYet

(***************************************************************************)
(* EventObserver::send_payload, lines 560-591: one iteration of the loop   *)
(* up to the break or the sleep, and the sleep.                            *)
(***************************************************************************)
CurrentObserver == interested_observers[pos]

SendPayloadAttempt ==
    /\ sp_pc = "attempt"
    /\ \E e \in EngineOutcomes :
          /\ LET request == NewRequest(CurrentObserver, PathOf(call), payload)
                 res == send_request(e)
             IN  /\ sp_requests' = sp_requests \cup {request}
                 /\ requests' = Min(requests + 1, MaxAttempts + 1)
                 /\ contacted' = contacted \cup {CurrentObserver}
                 /\ last_result' = res
                 /\ IF SendPayloadBreaks(res)
                    THEN /\ sp_pc' = "returned"
                         /\ acked' = acked \cup {CurrentObserver}
                         /\ UNCHANGED failures
                    ELSE /\ sp_pc' = "sleep"
                         /\ failures' = Min(failures + 1, MaxAttempts)
                         /\ UNCHANGED acked
    /\ UNCHANGED <<dispatcherVars, channelVars, callVars>>
    /\ UNCHANGED <<tenureVars, requestVars>>

\* mutant: a retry budget; once it is used up send_payload returns
SendPayloadSleep_GivesUp ==
    /\ sp_pc = "sleep"
    /\ sp_pc' = IF failures >= MaxAttempts THEN "returned" ELSE "attempt"
    /\ last_result' = None
    /\ UNCHANGED <<requests, failures, sp_requests>>
    /\ UNCHANGED <<dispatcherVars, channelVars, callVars, deliveryLog>>
    /\ UNCHANGED <<tenureVars, requestVars>>

\* sleep(backoff), line 590, then the next iteration
SendPayloadSleep ==
    /\ sp_pc = "sleep"
    /\ sp_pc' = "attempt"
    /\ last_result' = None
    /\ UNCHANGED <<requests, failures, sp_requests>>
    /\ UNCHANGED <<dispatcherVars, channelVars, callVars, deliveryLog>>
    /\ UNCHANGED <<tenureVars, requestVars>>

\* mutant: the loop over the observers ends after the first delivery
DispatchNext_StopsAfterFirst ==
    /\ sp_pc = "returned"
    /\ call_pc' = "returned"
    /\ sp_pc' = "none"
    /\ last_result' = None
    /\ UNCHANGED <<call, interested_observers, pos, payload, requests,
                   failures, sp_requests>>
    /\ UNCHANGED <<dispatcherVars, channelVars, deliveryLog>>
    /\ UNCHANGED <<tenureVars, requestVars>>

\* send_payload has returned: the for loop takes the next observer, or the
\* dispatch call returns
DispatchNext ==
    /\ sp_pc = "returned"
    /\ IF pos < Len(interested_observers)
       THEN /\ pos' = pos + 1
            /\ EnterSendPayload(PayloadFor(call, interested_observers[pos + 1]))
            /\ UNCHANGED <<call, call_pc, interested_observers>>
       ELSE /\ call_pc' = "returned"
            /\ sp_pc' = "none"
            /\ last_result' = None
            /\ UNCHANGED <<call, interested_observers, pos, payload, requests,
                           failures, sp_requests>>
    /\ UNCHANGED <<dispatcherVars, channelVars, deliveryLog>>
    /\ UNCHANGED <<tenureVars, requestVars>>

(***************************************************************************)
(* Storage read by the tenure stream: the headers DB (header by block id)  *)
(* and the staging blocks DB (stored size and bytes by block id).          *)
(***************************************************************************)
BlockIds == 0 .. (NumBlocks - 1)
ConsensusHashes == {1, 2}
\* stored sizes: small ones that add up to the budget, and one that alone
\* is larger than a whole message
BlockSizes == {1, 2, MAX_MESSAGE_LEN + 1}

\* what can be stored under one block id: a staged Nakamoto block, a Nakamoto
\* header whose block is not in the staging DB, or an epoch2 header
BlockTemplates ==
    [header : {"nakamoto"}, consensus_hash : ConsensusHashes,
     staged : {TRUE}, size : BlockSizes]
    \cup [header : {"nakamoto"}, consensus_hash : ConsensusHashes,
          staged : {FALSE}, size : {0}]
    \cup [header : {"epoch2"}, consensus_hash : {0}, staged : {FALSE}, size : {0}]

\* the row of block b: its parent is the next id; the last block's parent
\* has no header
Stored(b, t) ==
    [block_id |-> b, header |-> t.header, consensus_hash |-> t.consensus_hash,
     parent_block_id |-> b + 1, staged |-> t.staged, size |-> t.size]

\* NakamotoChainState::get_block_header_nakamoto (called at lines 91-95, 192-196)
get_block_header_nakamoto(b) ==
    IF b \in DOMAIN chain THEN Some(chain[b]) ELSE None

\* header.anchored_header.as_stacks_nakamoto() (lines 98, 197)
as_stacks_nakamoto(header) ==
    IF header.header = "nakamoto" THEN Some(header) ELSE None

\* get_nakamoto_block_size (called at lines 108-113)
get_nakamoto_block_size(b) ==
    IF b \in DOMAIN chain /\ chain[b].staged THEN Some(chain[b].size) ELSE None

\* the stored bytes of block b: byte k of n carries <<b, k, n>>
SerializedBlock(b) == [k \in 1 .. chain[b].size |-> <<b, k, chain[b].size>>]

\* NakamotoBlock::consensus_deserialize: one block off the front of buf
consensus_deserialize(buf) ==
    LET h == buf[1]
    IN  IF /\ h[2] = 1
           /\ h[3] <= Len(buf)
           /\ \A k \in 1 .. h[3] : buf[k] = <<h[1], k, h[3]>>
        THEN [ok |-> TRUE, block |-> h[1], rest |-> SubSeq(buf, h[3] + 1, Len(buf))]
        ELSE [ok |-> FALSE, block |-> h[1], rest |-> buf]

\* mutant: u64::wrapping_add
saturating_add_Wraps(a, b) == (a + b) % (U64_MAX + 1)

\* u64::saturating_add
saturating_add(a, b) == IF a + b > U64_MAX THEN U64_MAX ELSE a + b

(***************************************************************************)
(* NakamotoBlockStream (net/api/getblock_v3.rs), the inner generator.      *)
(***************************************************************************)
\* NakamotoBlockStream::new, wrapped by NakamotoTenureStream::new (lines 69-83)
NewTenureStream(b, consensus_hash, parent_block_id) ==
    [index_block_hash |-> b,
     consensus_hash |-> consensus_hash,
     parent_block_id |-> parent_block_id,
     offset |-> 0,
     total_bytes |-> 0,
     total_sent |-> 0]

\* NakamotoBlockStream::generate_next_chunk: the next bytes of the block
BlockChunk(s) ==
    LET blob == SerializedBlock(s.index_block_hash)
    IN  SubSeq(blob, s.offset + 1, Min(s.offset + ChunkSize, Len(blob)))

\* ... and the stream after it read n bytes
AfterChunk(s, n) ==
    [s EXCEPT !.offset = @ + n, !.total_bytes = @ + n]

\* NakamotoBlockStream::reset
reset(s, b, parent_block_id) ==
    [s EXCEPT !.index_block_hash = b,
              !.parent_block_id = parent_block_id,
              !.offset = 0,
              !.total_bytes = 0]

(***************************************************************************)
(* NakamotoTenureStream                                                    *)
(***************************************************************************)
\* mutant: the tenure of the parent is not looked at
SameTenure_Always(parent_nakamoto_header, s) == TRUE

\* line 104
SameTenure(parent_nakamoto_header, s) ==
    parent_nakamoto_header.consensus_hash = s.consensus_hash

\* mutant: the budget is not tested
FitsBudget_Always(total_sent, parent_size) == TRUE

\* mutant: a total equal to the maximum is refused
FitsBudget_RefusesEqual(total_sent, parent_size) ==
    ~(saturating_add(total_sent, parent_size) >= MAX_MESSAGE_LEN)

\* line 118
FitsBudget(total_sent, parent_size) ==
    ~(saturating_add(total_sent, parent_size) > MAX_MESSAGE_LEN)

\* mutant: the parent pointer is not moved along with the cursor
NextCursor_KeepsParent(s, parent_nakamoto_header) ==
    reset(s, parent_nakamoto_header.block_id, s.parent_block_id)

\* lines 123-126
NextCursor(s, parent_nakamoto_header) ==
    reset(s, parent_nakamoto_header.block_id,
          parent_nakamoto_header.parent_block_id)

\* mutant: a parent without header or stored size ends the stream quietly,
\* after the bytes of the finished block were counted
next_block_MissingParentEndsStream(s) ==
    LET parent_header == get_block_header_nakamoto(s.parent_block_id)
        s1 == [s EXCEPT !.total_sent = saturating_add(s.total_sent, s.total_bytes)]
    IN  IF parent_header = None
        THEN [result |-> "false", stream |-> s1]
        ELSE IF as_stacks_nakamoto(parent_header.some) = None
        THEN [result |-> "false", stream |-> s]
        ELSE IF ~SameTenure(parent_header.some, s)
        THEN [result |-> "false", stream |-> s]
        ELSE IF get_nakamoto_block_size(s.parent_block_id) = None
        THEN [result |-> "false", stream |-> s1]
        ELSE IF ~FitsBudget(s1.total_sent, chain[s.parent_block_id].size)
        THEN [result |-> "false", stream |-> s1]
        ELSE [result |-> "true", stream |-> NextCursor(s1, parent_header.some)]

\* lines 90-128: the result ("Err", "false", "true") and the stream after it
next_block(s) ==
    LET parent_header == get_block_header_nakamoto(s.parent_block_id)
    IN  IF parent_header = None
        THEN [result |-> "Err", stream |-> s]
        ELSE
        LET parent_nakamoto_header == as_stacks_nakamoto(parent_header.some)
        IN  IF parent_nakamoto_header = None
            THEN [result |-> "false", stream |-> s]
            ELSE IF ~SameTenure(parent_nakamoto_header.some, s)
            THEN [result |-> "false", stream |-> s]
            ELSE
            LET parent_size == get_nakamoto_block_size(s.parent_block_id)
            IN  IF parent_size = None
                THEN [result |-> "Err", stream |-> s]
                ELSE
                LET s1 == [s EXCEPT !.total_sent =
                               saturating_add(s.total_sent, s.total_bytes)]
                IN  IF ~FitsBudget(s1.total_sent, parent_size.some)
                    THEN [result |-> "false", stream |-> s1]
                    ELSE [result |-> "true",
                          stream |-> NextCursor(s1, parent_nakamoto_header.some)]

\* the tenure variables a pull does not touch
NoRpcChange == UNCHANGED <<chain, rpc_request, block_id, rpc_status, clientVars>>

\* mutant: the pull never sends what the inner generator read
HaveBlockData_Never(next_block_chunk) == FALSE

\* line 273: the inner generator still had bytes of the current block
HaveBlockData(next_block_chunk) == Len(next_block_chunk) > 0

\* HttpChunkGenerator::generate_next_chunk (lines 271-290), one pull of the
\* HTTP layer; an empty chunk ends the response, an error aborts it.  The
\* stream lives until the response is dropped, and a caller may pull it
\* again after the empty chunk
generate_next_chunk ==
    /\ rpc_pc \in {"streaming", "done"}
    /\ LET next_block_chunk == BlockChunk(stream)
       IN  IF HaveBlockData(next_block_chunk)
           THEN /\ response_body' = response_body \o next_block_chunk
                /\ stream' = AfterChunk(stream, Len(next_block_chunk))
                /\ send_more' = "none"
                /\ UNCHANGED <<visited, rpc_pc>>
           ELSE
           LET advance == next_block(stream)
           IN  /\ send_more' = advance.result
               /\ IF advance.result = "Err"
                  THEN /\ rpc_pc' = "failed"
                       /\ stream' = advance.stream
                       /\ UNCHANGED <<response_body, visited>>
                  ELSE IF advance.result = "false"
                  THEN /\ rpc_pc' = "done"
                       /\ stream' = advance.stream
                       /\ UNCHANGED <<response_body, visited>>
                  ELSE
                  LET chunk == BlockChunk(advance.stream)
                  IN  /\ response_body' = response_body \o chunk
                      /\ stream' = AfterChunk(advance.stream, Len(chunk))
                      /\ visited' = Append(visited, advance.stream.index_block_hash)
                      /\ rpc_pc' = IF Len(chunk) > 0 THEN "streaming" ELSE "done"
    /\ NoRpcChange
    /\ UNCHANGED <<deliveryVars, requestVars>>

\* HttpRequest::try_parse_request (lines 143-169)
try_parse_request ==
    /\ rpc_pc = "idle"
    /\ rpc_request # None
    /\ IF rpc_request.some.content_length # 0
       THEN /\ rpc_pc' = "error"
            /\ rpc_status' = 400
            /\ UNCHANGED block_id
       ELSE /\ block_id' = Some(rpc_request.some.block_id)
            /\ rpc_pc' = "parsed"
            /\ UNCHANGED rpc_status
    /\ rpc_request' = None
    /\ UNCHANGED <<chain, streamVars, clientVars, deliveryVars, requestVars>>

\* the closure given to with_node_state (lines 191-206): the stream, or the
\* chain error; db_ok is whether the database could be (re)opened
stream_res(b, db_ok) ==
    LET header == get_block_header_nakamoto(b)
    IN  IF ~db_ok
        THEN [ok |-> FALSE, err |-> "DBError"]
        ELSE IF header = None
        THEN [ok |-> FALSE, err |-> "NoSuchBlockError"]
        ELSE
        LET nakamoto_header == as_stacks_nakamoto(header.some)
        IN  IF nakamoto_header = None
            THEN [ok |-> FALSE, err |-> "NoSuchBlockError"]
            ELSE IF get_nakamoto_block_size(b) = None
            THEN [ok |-> FALSE, err |-> "NoSuchBlockError"]
            ELSE [ok |-> TRUE,
                  stream |-> NewTenureStream(b, nakamoto_header.some.consensus_hash,
                                             nakamoto_header.some.parent_block_id)]

\* mutant: every failure to open the stream is answered 500
response_of_EveryErrorIs500(res) ==
    IF res.ok
    THEN [status |-> 200, content_type |-> "Bytes", contents |-> "stream"]
    ELSE [status |-> 500, content_type |-> "error", contents |-> "Failed to load block"]

\* lines 209-240: the response made from the result of the closure: the
\* stream under a 200 preamble of content type Bytes, HttpNotFound with
\* "No such block", or HttpServerError with "Failed to load block"
response_of(res) ==
    IF res.ok
    THEN [status |-> 200, content_type |-> "Bytes", contents |-> "stream"]
    ELSE IF res.err = "NoSuchBlockError"
    THEN [status |-> 404, content_type |-> "error", contents |-> "No such block"]
    ELSE [status |-> 500, content_type |-> "error", contents |-> "Failed to load block"]

\* mutant: the handler reads block_id and leaves it set
take_KeepsValue(field) == field

\* Option::take (line 185): what is left in the field
take(field) == None

\* RPCRequestHandler::try_handle_request (lines 179-241).  The HTTP layer
\* calls it after a successful parse; called in any other state of the
\* handler it finds no block_id and returns NetError::SendError("Missing
\* `block_id`") with no response made (rpc_status 0)
try_handle_request ==
    /\ rpc_pc \in {"idle", "parsed", "error"}
    /\ block_id' = take(block_id)
    /\ IF block_id = None
       THEN /\ rpc_pc' = "error"
            /\ rpc_status' = 0
            /\ UNCHANGED streamVars
       ELSE \E db_ok \in BOOLEAN :
            LET res == stream_res(block_id.some, db_ok)
            IN  IF res.ok
                THEN /\ rpc_status' = response_of(res).status
                     /\ rpc_pc' = "streaming"
                     /\ stream' = res.stream
                     /\ visited' = <<block_id.some>>
                     /\ response_body' = <<>>
                     /\ send_more' = "none"
                ELSE /\ rpc_status' = response_of(res).status
                     /\ rpc_pc' = "error"
                     /\ UNCHANGED streamVars
    /\ UNCHANGED <<chain, rpc_request, clientVars, deliveryVars, requestVars>>

\* RPCRequestHandler::restart (lines 174-176), between two requests
restart ==
    /\ rpc_pc = "finished"
    /\ block_id' = None
    /\ rpc_pc' = "idle"
    /\ rpc_status' = 0
    /\ stream' = None
    /\ response_body' = <<>>
    /\ visited' = <<>>
    /\ send_more' = "none"
    /\ UNCHANGED <<chain, rpc_request, clientVars, deliveryVars, requestVars>>

RECURSIVE decode_from(_, _)
\* the loop of lines 317-320
decode_from(ptr, blocks) ==
    IF Len(ptr) > 0
    THEN LET block == consensus_deserialize(ptr)
         IN  IF block.ok
             THEN decode_from(block.rest, Append(blocks, block.block))
             ELSE [ok |-> FALSE, blocks |-> <<>>]
    ELSE [ok |-> TRUE, blocks |-> blocks]

\* mutant: the decoder stops after the first block
decode_nakamoto_tenure_FirstOnly(tenure_bytes) ==
    IF Len(tenure_bytes) > 0
    THEN LET block == consensus_deserialize(tenure_bytes)
         IN  [ok |-> block.ok, blocks |-> IF block.ok THEN <<block.block>> ELSE <<>>]
    ELSE [ok |-> TRUE, blocks |-> <<>>]

\* StacksHttpResponse::decode_nakamoto_tenure (lines 309-323)
decode_nakamoto_tenure(tenure_bytes) == decode_from(tenure_bytes, <<>>)

(***************************************************************************)
(* The downloading client: asks for a tenure from a block, and asks again  *)
(* from the last block it received while the tenure is not complete.       *)
(***************************************************************************)
\* most requests one download counts
MaxRequests == 4

\* the block b is the first block of its tenure: its parent is not a
\* Nakamoto block of the same tenure
TenureStartsAt(b) ==
    LET parent == get_block_header_nakamoto(chain[b].parent_block_id)
    IN  \/ parent = None
        \/ as_stacks_nakamoto(parent.some) = None
        \/ parent.some.consensus_hash # chain[b].consensus_hash

\* StacksHttpRequest::new_get_nakamoto_tenure (lines 294-302), first rpc_request;
\* content_length is not 0 only for a rpc_request built by other means
FirstRequest ==
    /\ client_pc = "idle"
    /\ rpc_pc = "idle"
    /\ \E b \in 0 .. NumBlocks, content_length \in {0, 1} :
          /\ rpc_request' = Some([block_id |-> b, content_length |-> content_length])
          /\ first_block' = Some(b)
    /\ client_pc' = "waiting"
    /\ client_requests' = 1
    /\ UNCHANGED <<chain, block_id, rpc_pc, rpc_status, streamVars,
                   client_blocks, last_new, deliveryVars, requestVars>>

\* the caller calls again with the id of the last block it received
\* (lines 87-88)
ContinueRequest ==
    /\ client_pc = "continue"
    /\ rpc_pc = "idle"
    /\ rpc_request' = Some([block_id |-> client_blocks[Len(client_blocks)],
                        content_length |-> 0])
    /\ client_pc' = "waiting"
    /\ client_requests' = Min(client_requests + 1, MaxRequests)
    /\ UNCHANGED <<chain, block_id, rpc_pc, rpc_status, streamVars, first_block,
                   client_blocks, last_new, deliveryVars, requestVars>>

\* the blocks in received not already in have
NewBlocks(have, received) ==
    SelectSeq(received, LAMBDA b : \A i \in 1 .. Len(have) : have[i] # b)

\* try_parse_response (lines 248-255) and decode_nakamoto_tenure on the
\* client: keep the new blocks, then stop or go on
ReceiveResponse ==
    /\ client_pc = "waiting"
    /\ rpc_pc \in {"done", "failed", "error"}
    /\ rpc_pc' = "finished"
    /\ LET tenure == IF rpc_pc = "done"
                     THEN decode_nakamoto_tenure(response_body)
                     ELSE [ok |-> FALSE, blocks |-> <<>>]
           new == NewBlocks(client_blocks, tenure.blocks)
           all == client_blocks \o new
       IN  /\ client_blocks' = all
           /\ last_new' = Len(new)
           /\ client_pc' = IF ~tenure.ok \/ Len(all) = 0 THEN "failed"
                           ELSE IF TenureStartsAt(all[Len(all)]) THEN "complete"
                           ELSE "continue"
    /\ UNCHANGED <<chain, rpc_request, block_id, rpc_status, streamVars, first_block,
                   client_requests, deliveryVars, requestVars>>

\* EventDispatcher::new (lines 1114-1129), StackerDBChannel::new (181-185)
InitDispatcher ==
    /\ registered_observers = 0
    /\ any_event_observers_lookup = {}
    /\ burn_block_observers_lookup = {}
    /\ mempool_observers_lookup = {}
    /\ microblock_observers_lookup = {}
    /\ miner_observers_lookup = {}
    /\ mined_microblocks_observers_lookup = {}
    /\ stackerdb_observers_lookup = {}
    /\ stx_observers_lookup = {}
    /\ block_proposal_observers_lookup = {}
    /\ contract_events_observers_lookup = [k \in {} |-> {}]
    /\ assets_observers_lookup = [a \in {} |-> {}]
    /\ registered_confs = <<>>
    /\ matrix_call = None
    /\ filter_call = None
    /\ sender_info = None
    /\ receiver_alive = {}
    /\ channel_events = <<>>
    /\ register_returned = <<>>
    /\ mutex_holder = None
    /\ interested_receiver = None
    /\ call = "none"
    /\ call_pc = "idle"
    /\ interested_observers = <<>>
    /\ pos = 0
    /\ payload = <<>>
    /\ sp_pc = "none"
    /\ requests = 0
    /\ failures = 0
    /\ last_result = None
    /\ sp_requests = {}
    /\ contacted = {}
    /\ acked = {}

\* RPCNakamotoTenureRequestHandler::new (lines 54-56) and a client that has
\* asked for nothing
InitRpc ==
    /\ rpc_request = None
    /\ block_id = None
    /\ rpc_pc = "idle"
    /\ rpc_status = 0
    /\ stream = None
    /\ response_body = <<>>
    /\ visited = <<>>
    /\ send_more = "none"
    /\ client_pc = "idle"
    /\ first_block = None
    /\ client_blocks = <<>>
    /\ client_requests = 0
    /\ last_new = 0

\* the event dispatcher over a node whose storage holds no block
\* no send_request call is running
InitRequest ==
    /\ sr_pc = "idle"
    /\ sr_request = None
    /\ addrs = 0
    /\ addr_i = 0
    /\ last_err = None
    /\ connections = 0
    /\ handed = 0
    /\ elapsed = 0
    /\ sr_result = None
    /\ sr_message = <<>>

InitDelivery ==
    /\ InitRequest
    /\ InitDispatcher
    /\ InitRpc
    /\ chain = <<>>

\* the tenure RPC over every storage content
InitTenure ==
    /\ InitRequest
    /\ InitDispatcher
    /\ InitRpc
    /\ \E t \in [BlockIds -> BlockTemplates] :
          chain = [b \in BlockIds |-> Stored(b, t[b])]

\* stored sizes when the staging DB may also hold an empty block
AnyBlockTemplates ==
    BlockTemplates
    \cup [header : {"nakamoto"}, consensus_hash : ConsensusHashes,
          staged : {TRUE}, size : {0}]

\* the tenure RPC over every storage content, empty blocks included
InitTenureAnySize ==
    /\ InitRequest
    /\ InitDispatcher
    /\ InitRpc
    /\ \E t \in [BlockIds -> AnyBlockTemplates] :
          chain = [b \in BlockIds |-> Stored(b, t[b])]

\* the HTTP layer: the handler is called after a successful parse, and the
\* stream is pulled until its first empty chunk or error
NextTenure ==
    \/ FirstRequest
    \/ ContinueRequest
    \/ try_parse_request
    \/ rpc_pc = "parsed" /\ try_handle_request
    \/ rpc_pc = "streaming" /\ generate_next_chunk
    \/ ReceiveResponse
    \/ restart

\* the handler and the stream under any caller: try_handle_request in any
\* state of the handler, and pulls after the empty chunk; one request
NextHandler ==
    \/ FirstRequest
    \/ try_parse_request
    \/ try_handle_request
    \/ generate_next_chunk
    \/ ReceiveResponse
    \/ restart

SpecHandler == InitTenure /\ [][NextHandler]_vars

SpecTenure == InitTenure /\ [][NextTenure]_vars

SpecTenureAnySize == InitTenureAnySize /\ [][NextTenure]_vars

\* the receipts of the block in a delivery run: a block with no events
DeliveryBatches == {<<>>}

NextDelivery ==
    \/ \E conf \in ObserverConfigs : register_observer(conf)
    \/ /\ call_pc = "idle"
       /\ Len(channel_events) < MaxChannels
       /\ register_miner_coordinator
    \/ \E r \in receiver_alive : call_pc = "idle" /\ replace_receiver(r)
    \/ process_burn_block
    \/ process_new_mempool_txs
    \/ process_dropped_mempool_txs
    \/ process_new_microblocks
    \/ process_mined_block_event
    \/ process_mined_microblock_event
    \/ process_mined_nakamoto_block_event
    \/ \E receipts \in DeliveryBatches : process_chain_tip(receipts)
    \/ \E contract_id \in ContractIds : process_new_stackerdb_chunks(contract_id)
    \/ process_new_stackerdb_chunks_send
    \/ SendPayloadAttempt
    \/ SendPayloadSleep
    \/ DispatchNext

SpecDelivery == InitDelivery /\ [][NextDelivery]_vars

\* one send_request call
NextRequest ==
    \/ SendRequestCall
    \/ SendRequestConnect
    \/ SendRequestSetup
    \/ \E dt \in Ticks : SendRequestSend(dt)
    \/ \E dt \in Ticks : SendRequestRecv(dt)

SpecRequest == InitDelivery /\ [][NextRequest]_vars

\* the clock advances: an iteration that takes time is eventually run
SpecRequestFair ==
    /\ SpecRequest
    /\ WF_vars(SendRequestConnect)
    /\ WF_vars(SendRequestSetup)
    /\ WF_vars(SendRequestSend(1))
    /\ WF_vars(SendRequestRecv(1))

\* the observers a mailbox run registers: one that subscribed to StackerDB
\* chunks and one that did not
MailboxConfigs == {{StackerDBChunks}, {BurnchainBlocks}}

\* registering threads next to the thread that runs one
\* process_new_stackerdb_chunks call
NextMailbox ==
    \/ \E conf \in MailboxConfigs : register_observer(conf)
    \/ Len(channel_events) < MaxRegistrations /\ register_miner_coordinator
    \/ \E r \in receiver_alive : replace_receiver(r)
    \/ \E contract_id \in ContractIds : process_new_stackerdb_chunks(contract_id)
    \/ process_new_stackerdb_chunks_send
    \/ SendPayloadAttempt
    \/ SendPayloadSleep
    \/ DispatchNext

SpecMailbox == InitDelivery /\ [][NextMailbox]_vars

NextMatrix ==
    \/ \E conf \in MatrixConfigs : register_observer(conf)
    \/ CreateDispatchMatrix
    \/ FilterObservers

\* the registry and the two functions that read it
SpecMatrix == InitDelivery /\ [][NextMatrix]_vars

\* the dispatching thread keeps running: send_request ends (it has a deadline),
\* the sleep ends, and the loop goes on
SpecDeliveryFair ==
    /\ SpecDelivery
    /\ WF_vars(SendPayloadAttempt)
    /\ WF_vars(SendPayloadSleep)
    /\ WF_vars(DispatchNext)


(***************************************************************************)
(* Properties of the delivery client and of a dispatch call.               *)
(***************************************************************************)

\* C1: send_payload returns only right after a send_request that returned Ok
\* with status exactly 200: on return the observer was sent the payload at
\* least once and acknowledged it; any other status, and any transport
\* failure, leaves the call in its loop (it sleeps and does not return).
C1_ReturnsOnlyAfter200 ==
    /\ sp_pc = "returned" =>
          /\ last_result = Ok(200)
          /\ requests >= 1
          /\ CurrentObserver \in contacted
          /\ CurrentObserver \in acked
    /\ (last_result # None /\ last_result # Ok(200)) => sp_pc = "sleep"
    /\ acked \subseteq contacted

\* a return that followed a failed attempt and a retry
C1_Witness ==
    /\ sp_pc = "returned"
    /\ failures >= 1
    /\ last_result = Ok(200)

\* C2: send_payload retries without end.  A failed attempt is always followed
\* by the sleep and another attempt with the same request (payload and path);
\* no step out of the loop exists but the one an acknowledged attempt takes;
\* and, the thread being scheduled, if from some point on no attempt fails,
\* every send_payload, and with it the dispatch call, eventually returns.
C2_RetriesForever ==
    /\ [][sp_pc = "sleep" =>
            /\ sp_pc' = "attempt"
            /\ call_pc' = "running"
            /\ payload' = payload /\ pos' = pos /\ call' = call]_vars
    /\ [][(sp_pc = "attempt" /\ sp_pc' = "returned") => last_result' = Ok(200)]_vars
    /\ [](Cardinality(sp_requests) <= 1)
    /\ [](sp_pc = "sleep" => <>(sp_pc = "attempt"))
    /\ (<>[](last_result \in {None, Ok(200)})) => <>[](sp_pc = "none")

\* more failures than the model counts, and the next attempt is due
C2_Witness ==
    /\ sp_pc = "attempt"
    /\ failures = MaxAttempts
    /\ requests = MaxAttempts + 1
    /\ Cardinality(sp_requests) = 1

\* C3: an endpoint that fails k attempts and answers 200 to attempt k+1 gets
\* exactly k+1 requests: the 200 ends send_payload at once, and no request is
\* made to an observer that has acknowledged.
C3_ExactlyKPlusOneRequests ==
    /\ (sp_pc = "returned" /\ failures < MaxAttempts) => requests = failures + 1
    /\ last_result = Ok(200) => sp_pc = "returned"
    /\ sp_pc \in {"attempt", "sleep"} => CurrentObserver \notin acked

\* one failed attempt, then the 200: two requests
C3_Witness ==
    /\ sp_pc = "returned"
    /\ failures = 1
    /\ requests = 2
    /\ last_result = Ok(200)

\* the observers a dispatch call is to deliver to
Audience(c) ==
    CASE c = "process_burn_block" ->
            burn_block_observers_lookup \cup any_event_observers_lookup
      [] c \in {"process_new_mempool_txs", "process_dropped_mempool_txs"} ->
            mempool_observers_lookup \cup any_event_observers_lookup
      [] c = "process_new_microblocks" ->
            microblock_observers_lookup \cup any_event_observers_lookup
      [] c \in {"process_mined_block_event", "process_mined_nakamoto_block_event"} ->
            miner_observers_lookup
      [] c = "process_mined_microblock_event" -> mined_microblocks_observers_lookup
      [] c = "process_new_stackerdb_chunks" -> stackerdb_observers_lookup
      [] c = "process_chain_tip" -> Observers
      [] OTHER -> {}

\* C4: within one dispatch call the observers are served one after another
\* in ascending index: an observer is sent its first request only when every
\* interested observer of smaller index has acknowledged; the call returns
\* only when every interested observer has acknowledged; so an observer that
\* does not answer 200 holds back the call and every later observer.
C4_SequentialDelivery ==
    /\ contacted \subseteq Audience(call)
    /\ \A j \in contacted : \A i \in Audience(call) : i < j => i \in acked
    /\ call_pc = "returned" => Audience(call) \subseteq acked
    /\ \A o \in Audience(call) \ acked :
          /\ call_pc # "returned"
          /\ \A j \in contacted : j <= o

\* two observers served in turn, the first only after a retry
C4_Witness ==
    /\ call_pc = "returned"
    /\ Cardinality(acked) >= 2
    /\ acked = Audience(call)

(***************************************************************************)
(* Tenure stream properties                                                *)
(***************************************************************************)
\* the blocks whose bytes the response carries so far
EmittedBlocks == decode_nakamoto_tenure(response_body)

\* blocks b0 .. b0 + j are staged Nakamoto blocks of the tenure of b0
IsTenureChain(b0, j) ==
    \A b \in b0 .. (b0 + j) :
        /\ b \in DOMAIN chain
        /\ chain[b].header = "nakamoto"
        /\ chain[b].staged
        /\ chain[b].consensus_hash = chain[b0].consensus_hash

RECURSIVE PrefixSum(_, _)
\* s0 + ... + sj for the chain that starts at b0
PrefixSum(b0, j) ==
    IF j = 0 THEN chain[b0].size ELSE PrefixSum(b0, j - 1) + chain[b0 + j].size

\* C5: the bytes emitted over all generate_next_chunk calls of one response
\* never exceed MAX_MESSAGE_LEN, for every start block and stored sizes
C5_TotalBytesWithinMessageLen ==
    Len(response_body) <= MAX_MESSAGE_LEN

\* C6: a stream started at block 0 of a same-tenure chain with sizes
\* s0, s1, ... emits exactly the blocks 0..k whose prefix sum s0+...+sk is
\* at most MAX_MESSAGE_LEN, and then terminates
C6_EmitsWhilePrefixSumFits ==
    rpc_pc = "done" =>
        LET b0 == visited[1]
            Fits == {j \in 0 .. (NumBlocks - 1 - b0) :
                        IsTenureChain(b0, j) /\ PrefixSum(b0, j) <= MAX_MESSAGE_LEN}
        IN  EmittedBlocks.blocks = [i \in 1 .. Cardinality(Fits) |-> b0 + i - 1]

\* the current block is drained and its parent is a Nakamoto block of
\* another tenure
ParentInOtherTenure ==
    /\ rpc_pc = "streaming"
    /\ stream.offset = chain[stream.index_block_hash].size
    /\ stream.parent_block_id \in DOMAIN chain
    /\ chain[stream.parent_block_id].header = "nakamoto"
    /\ chain[stream.parent_block_id].consensus_hash # stream.consensus_hash

\* C7: every block emitted has the consensus hash of the start block, and
\* the stream ends, emitting nothing more, when the parent of the drained
\* block has another consensus hash, whatever budget is left
C7_StopsAtTenureBoundary ==
    /\ [](\A i \in 1 .. Len(response_body) :
             chain[response_body[i][1]].consensus_hash
                 = chain[visited[1]].consensus_hash)
    /\ [](\A i \in 1 .. Len(visited) :
             chain[visited[i]].consensus_hash = chain[visited[1]].consensus_hash)
    /\ [][ParentInOtherTenure =>
              rpc_pc' = "done" /\ response_body' = response_body]_vars

\* a response of two blocks ended at a staged parent of another tenure
\* that would have fitted in the budget
C7_Witness ==
    /\ rpc_pc = "done"
    /\ Len(visited) >= 2
    /\ stream.parent_block_id \in DOMAIN chain
    /\ chain[stream.parent_block_id].staged
    /\ chain[stream.parent_block_id].consensus_hash # stream.consensus_hash
    /\ Len(response_body) + chain[stream.parent_block_id].size <= MAX_MESSAGE_LEN

RECURSIVE Concat(_)
\* the stored bytes of the blocks of a list, one after the other
Concat(blocks) ==
    IF Len(blocks) = 0 THEN <<>>
    ELSE SerializedBlock(blocks[1]) \o Concat(Tail(blocks))

\* C8: decoding the concatenated chunks of a completed response gives the
\* blocks of the walk from the start block along the parent links, in
\* child-to-ancestor order, each whole and once
C8_DecodeRoundTrip ==
    rpc_pc = "done" =>
        /\ EmittedBlocks = [ok |-> TRUE, blocks |-> visited]
        /\ response_body = Concat(visited)
        /\ \A i \in 1 .. (Len(visited) - 1) :
              visited[i + 1] = chain[visited[i]].parent_block_id

\* a completed response of several blocks, one of them sent in several chunks
C8_Witness ==
    /\ rpc_pc = "done"
    /\ Len(visited) >= 2
    /\ \E i \in 1 .. Len(visited) : chain[visited[i]].size > ChunkSize

\* C9: the cursor moves only to the parent held before the move, the new
\* parent pointer is that block's own parent, and no block is visited twice
C9_CursorMovesToParent ==
    /\ [][(rpc_pc = "streaming" /\ rpc_pc' \in {"streaming", "done", "failed"}
           /\ stream'.index_block_hash # stream.index_block_hash)
          => /\ stream'.index_block_hash = stream.parent_block_id
             /\ stream'.parent_block_id
                    = chain[stream.parent_block_id].parent_block_id]_vars
    /\ [](rpc_pc \in {"streaming", "done", "failed"} =>
             /\ visited[Len(visited)] = stream.index_block_hash
             /\ stream.parent_block_id = chain[stream.index_block_hash].parent_block_id
             /\ \A i, j \in 1 .. Len(visited) : i # j => visited[i] # visited[j]
             /\ \A i \in 1 .. (Len(visited) - 1) :
                   visited[i + 1] = chain[visited[i]].parent_block_id)

\* the cursor has moved twice
C9_Witness ==
    /\ rpc_pc = "streaming"
    /\ Len(visited) = 3

\* C10: every continuation response, asked with the id of the last block
\* received, brings at least one block the client did not have
C10_ContinuationMakesProgress ==
    (client_requests >= 2 /\ client_pc \in {"continue", "complete"})
        => last_new >= 1

\* the inner generator has no byte left of the current block
CurrentBlockDrained ==
    /\ rpc_pc = "streaming"
    /\ stream.offset = chain[stream.index_block_hash].size

\* the parent of the current block has a header of the older format
ParentIsOlderFormat ==
    /\ stream.parent_block_id \in DOMAIN chain
    /\ chain[stream.parent_block_id].header = "epoch2"

\* the parent of the current block is a Nakamoto block of the same tenure
ParentInSameTenure ==
    /\ stream.parent_block_id \in DOMAIN chain
    /\ chain[stream.parent_block_id].header = "nakamoto"
    /\ chain[stream.parent_block_id].consensus_hash = stream.consensus_hash

\* the parent is stored, and the bytes sent so far plus the parent's fit
ParentFits ==
    /\ ParentInSameTenure
    /\ chain[stream.parent_block_id].staged
    /\ Len(response_body) + chain[stream.parent_block_id].size <= MAX_MESSAGE_LEN

\* the parent is stored but would take the response over the budget
ParentDoesNotFit ==
    /\ ParentInSameTenure
    /\ chain[stream.parent_block_id].staged
    /\ Len(response_body) + chain[stream.parent_block_id].size > MAX_MESSAGE_LEN

\* C11: when the parent of the drained block is of the older format, of
\* another tenure, or too big for the budget left, the pull returns an empty
\* chunk and no error, and the bytes sent end with a whole block
C11_StoppingIsNotAnError ==
    /\ [][(CurrentBlockDrained
           /\ (ParentIsOlderFormat \/ ParentInOtherTenure \/ ParentDoesNotFit))
          => /\ rpc_pc' = "done"
             /\ send_more' = "false"
             /\ response_body' = response_body]_vars
    /\ [](rpc_pc = "done" => response_body = Concat(visited))

\* a response of two blocks that ended because the third did not fit
C11_Witness ==
    /\ rpc_pc = "done"
    /\ send_more = "false"
    /\ Len(visited) >= 2
    /\ ParentDoesNotFit

\* C12: an empty chunk without error is returned only when next_block
\* returned Ok(false), never while a same-tenure Nakamoto parent that fits
\* in the budget is unsent, whatever the stored sizes (0 included)
C12_EmptyChunkOnlyAfterFalse ==
    rpc_pc = "done" => (send_more = "false" /\ ~ParentFits)

\* C13: when the header of the drained block's parent does not exist, or
\* the stored size of that same-tenure parent does not exist, the pull fails
\* and leaves the cursor and total_sent as they were
C13_MissingParentFailsAdvance ==
    [][(CurrentBlockDrained
        /\ (\/ stream.parent_block_id \notin DOMAIN chain
            \/ (ParentInSameTenure /\ ~chain[stream.parent_block_id].staged)))
       => /\ rpc_pc' = "failed"
          /\ send_more' = "Err"
          /\ stream' = stream
          /\ response_body' = response_body]_vars

\* a stream that sent two blocks failed at the third, which has a header
\* but no stored bytes
C13_Witness ==
    /\ rpc_pc = "failed"
    /\ send_more = "Err"
    /\ Len(visited) >= 2
    /\ stream.total_bytes > 0
    /\ ParentInSameTenure
    /\ ~chain[stream.parent_block_id].staged

\* C14: next_block is called only by a pull that found the current block
\* drained, and the bytes sent are the earlier blocks in full followed by
\* the part of the current block sent so far
C14_DrainsBeforeAdvancing ==
    /\ [][(rpc_pc = "streaming" /\ send_more' # "none")
          => stream.offset = chain[stream.index_block_hash].size]_vars
    /\ [](rpc_pc \in {"streaming", "done", "failed"} =>
             response_body
                 = Concat(SubSeq(visited, 1, Len(visited) - 1))
                   \o SubSeq(SerializedBlock(stream.index_block_hash),
                             1, stream.offset))

\* bytes of the second block were sent, after a first block of several chunks
C14_Witness ==
    /\ rpc_pc = "streaming"
    /\ Len(visited) = 2
    /\ chain[visited[1]].size > ChunkSize
    /\ stream.offset > 0

(***************************************************************************)
(* Registry and dispatch matrix properties                                 *)
(***************************************************************************)
\* the topic key an event is filed under
TopicOf(event) ==
    CASE event.type = "SmartContractEvent" -> SmartContractEvent(event.key)
      [] event.type = "STXEvent" -> STXEvent
      [] event.type \in {"NFTEvent", "FTEvent"} -> AssetEvent(event.key)

\* topics of transaction events, and the other topics
EventTopics ==
    {STXEvent} \cup {SmartContractEvent(k) : k \in ContractEventKeys}
    \cup {AssetEvent(a) : a \in AssetIdentifiers}
NonEventTopics ==
    {BurnchainBlocks, MemPoolTransactions, Microblocks, MinedBlocks,
     MinedMicroblocks, StackerDBChunks, BlockProposal}

RECURSIVE FlattenedEvents(_)
\* the events of a batch, receipt after receipt
FlattenedEvents(receipts) ==
    IF Len(receipts) = 0 THEN <<>>
    ELSE receipts[1].events \o FlattenedEvents(Tail(receipts))

\* the batch of the call made, flattened, and the set observer o was given
BatchEvents == FlattenedEvents(matrix_call.some.receipts)
MatrixSet(o) == matrix_call.some.dispatch_matrix[o + 1]

\* the flattened indices of the events filed under topic T
IndicesOf(T) == {i \in 0 .. (Len(BatchEvents) - 1) : TopicOf(BatchEvents[i + 1]) = T}

\* C15: an observer subscribed to any-event is given every index 0 .. N-1
\* of the batch, whatever else it subscribed to
C15_AnyEventGetsEveryIndex ==
    matrix_call # None =>
        \A o \in Observers :
            AnyEvent \in registered_confs[o + 1]
                => MatrixSet(o) = 0 .. (Len(BatchEvents) - 1)

\* an any-event observer was given two events, one of them matched by the
\* topic of the other observer
C15_Witness ==
    /\ matrix_call # None
    /\ Len(BatchEvents) = 2
    /\ \E o, q \in Observers :
          /\ o # q
          /\ AnyEvent \in registered_confs[o + 1]
          /\ AnyEvent \notin registered_confs[q + 1]
          /\ MatrixSet(q) # {}
          /\ MatrixSet(o) = {0, 1}

\* C16: an observer subscribed to exactly one event topic T is given exactly
\* the indices of the events filed under T, observers of two different
\* single topics share no index, and an observer subscribed only to topics
\* that are not transaction events is given nothing
C16_SingleTopicGetsExactlyItsEvents ==
    matrix_call # None =>
        /\ \A o \in Observers : \A T \in EventTopics :
              registered_confs[o + 1] = {T} => MatrixSet(o) = IndicesOf(T)
        /\ \A o, q \in Observers : \A T, U \in EventTopics :
              (T # U /\ registered_confs[o + 1] = {T} /\ registered_confs[q + 1] = {U})
                  => MatrixSet(o) \cap MatrixSet(q) = {}
        /\ \A o \in Observers :
              registered_confs[o + 1] \subseteq NonEventTopics => MatrixSet(o) = {}

\* a single-topic observer was given one of two asset events, and an
\* observer of non-event topics nothing
C16_Witness ==
    /\ matrix_call # None
    /\ Len(BatchEvents) = 2
    /\ \A i \in 1 .. 2 : BatchEvents[i].type \in {"NFTEvent", "FTEvent"}
    /\ \E o, q \in Observers :
          /\ registered_confs[o + 1] = {AssetEvent("nft-asset")}
          /\ Cardinality(MatrixSet(o)) = 1
          /\ registered_confs[q + 1] = {BurnchainBlocks, BlockProposal}
          /\ MatrixSet(q) = {}

\* C17: index i is in observer o's set exactly when o subscribed to
\* any-event or to the topic of event i
C17_IndexIffSubscribed ==
    matrix_call # None =>
        /\ DOMAIN matrix_call.some.dispatch_matrix = 1 .. registered_observers
        /\ \A o \in Observers : \A i \in 0 .. (Len(BatchEvents) - 1) :
              i \in MatrixSet(o)
                  <=> \/ AnyEvent \in registered_confs[o + 1]
                      \/ TopicOf(BatchEvents[i + 1]) \in registered_confs[o + 1]
        /\ \A o \in Observers : MatrixSet(o) \subseteq 0 .. (Len(BatchEvents) - 1)

\* an observer of several topics was given the union: two events of
\* different topics, while another observer was given only one of them
C17_Witness ==
    /\ matrix_call # None
    /\ Len(BatchEvents) = 2
    /\ TopicOf(BatchEvents[1]) # TopicOf(BatchEvents[2])
    /\ \E o, q \in Observers :
          /\ Cardinality(registered_confs[o + 1]) = 3
          /\ MatrixSet(o) = {0, 1}
          /\ Cardinality(MatrixSet(q)) = 1

\* the set observers are filed in under key T
LookupOf(T) ==
    CASE T = AnyEvent -> any_event_observers_lookup
      [] T = BurnchainBlocks -> burn_block_observers_lookup
      [] T = MemPoolTransactions -> mempool_observers_lookup
      [] T = Microblocks -> microblock_observers_lookup
      [] T = MinedBlocks -> miner_observers_lookup
      [] T = MinedMicroblocks -> mined_microblocks_observers_lookup
      [] T = StackerDBChunks -> stackerdb_observers_lookup
      [] T = STXEvent -> stx_observers_lookup
      [] T = BlockProposal -> block_proposal_observers_lookup
      [] T[1] = "SmartContractEvent" ->
             IF T[2] \in DOMAIN contract_events_observers_lookup
             THEN contract_events_observers_lookup[T[2]] ELSE {}
      [] T[1] = "AssetEvent" ->
             IF T[2] \in DOMAIN assets_observers_lookup
             THEN assets_observers_lookup[T[2]] ELSE {}

\* C18: the k-th registration files index k under exactly the keys of its
\* configuration and leaves every index filed before in place; every filed
\* index is of a registered observer whose configuration has the key
C18_IndicesDenseAndStable ==
    /\ [](/\ Len(registered_confs) = registered_observers
          /\ \A T \in EventKeyTypes :
                LookupOf(T) = {o \in Observers : T \in registered_confs[o + 1]})
    /\ [][registered_observers' # registered_observers
          => /\ registered_observers' = registered_observers + 1
             /\ SubSeq(registered_confs', 1, registered_observers) = registered_confs
             /\ \A T \in EventKeyTypes :
                   LookupOf(T)' =
                       LookupOf(T)
                       \cup (IF T \in registered_confs'[registered_observers + 1]
                             THEN {registered_observers} ELSE {})]_vars

\* two observers are registered; the second is filed under a contract event
\* key the first is filed under too
C18_Witness ==
    /\ registered_observers = 2
    /\ "k1" \in DOMAIN contract_events_observers_lookup
    /\ contract_events_observers_lookup["k1"] = {0, 1}

\* C19: filter_observers returns, in ascending order and once each, the
\* registered observers in lookup and, with include_any, those in the
\* any-event set; without include_any the any-event set selects nobody
C19_FilterObserversExact ==
    filter_call # None =>
        LET f == filter_call.some
        IN  /\ \A i, j \in 1 .. Len(f.observers) :
                  i < j => f.observers[i] < f.observers[j]
            /\ {f.observers[i] : i \in 1 .. Len(f.observers)}
                   = {o \in Observers :
                         \/ o \in f.lookup
                         \/ (f.include_any /\ o \in any_event_observers_lookup)}

\* a call without include_any that left out an any-event observer and
\* returned another
C19_Witness ==
    /\ filter_call # None
    /\ ~filter_call.some.include_any
    /\ Len(filter_call.some.observers) = 1
    /\ \E o \in Observers :
          /\ o \in any_event_observers_lookup
          /\ o \notin filter_call.some.lookup


(***************************************************************************)
(* C20: once a second register_miner_coordinator call has returned, the    *)
(* receiver the first call returned gets no further forwarded event, in    *)
(* every interleaving of the registering threads with the dispatcher       *)
(* thread: the channel of the first registration accepts no event in any   *)
(* step taken after the second channel exists.                             *)
(***************************************************************************)
C20_FirstReceiverGetsNothingAfterSecondRegistration ==
    [][Len(channel_events) >= 2 => channel_events'[1] = channel_events[1]]_vars



(***************************************************************************)
(* C21: replace_receiver clears the slot whatever receiver it is given.    *)
(* After the step that drops a receiver, is_active returns None for every  *)
(* contract; the slot stays empty until a register_miner_coordinator step; *)
(* and a process_new_stackerdb_chunks call that starts while the slot is   *)
(* empty holds no sender and its send step queues nothing on any channel.  *)
(***************************************************************************)
C21_UnregisterClearsSlot ==
    /\ [][(receiver_alive' # receiver_alive /\ receiver_alive' \subseteq receiver_alive)
            => /\ sender_info' = None
               /\ \A c \in ContractIds : is_active(c)' = None]_vars
    /\ [](sender_info = None => \A c \in ContractIds : is_active(c) = None)
    /\ [][(sender_info = None /\ sender_info' # None)
            => Len(channel_events') = Len(channel_events) + 1]_vars
    /\ [][(call_pc = "idle" /\ call_pc' # "idle" /\ sender_info = None)
            => interested_receiver' = None]_vars
    /\ [][(call_pc = "forward" /\ call_pc' # "forward" /\ interested_receiver = None)
            => channel_events' = channel_events]_vars

\* the second registration was cleared with the receiver of the first one,
\* and a call that found no sender has served the observers
C21_Witness ==
    /\ sender_info = None
    /\ Len(channel_events) = 2
    /\ receiver_alive = {2}
    /\ call_pc = "returned"
    /\ interested_receiver = None
    /\ acked # {}
    /\ \A c \in DOMAIN channel_events : channel_events[c] = 0



(***************************************************************************)
(* C22: the slot is empty or holds one registration, that of the most      *)
(* recent register_miner_coordinator; whenever is_active returns a sender, *)
(* for any contract and in any interleaving of register, unregister and    *)
(* is_active, it is the sender of that most recent registration, and the   *)
(* sender process_new_stackerdb_chunks takes from is_active is the one of  *)
(* the latest registration at the time of the call.                        *)
(***************************************************************************)
C22_ActiveSenderIsLatestRegistration ==
    /\ [](sender_info # None =>
             /\ sender_info.sender = Len(channel_events)
             /\ sender_info = new_miner_receiver(Len(channel_events)))
    /\ [](\A c \in ContractIds :
             is_active(c) # None =>
                 /\ sender_info # None
                 /\ is_active(c) = Some(Len(channel_events)))
    /\ [][(call_pc = "idle" /\ call_pc' = "forward" /\ interested_receiver' # None)
            => /\ sender_info # None
               /\ interested_receiver' = Some(Len(channel_events))]_vars

\* is_active returned the sender of the second registration while the
\* receiver of the first one still exists
C22_Witness ==
    /\ Len(channel_events) = 2
    /\ call_pc = "forward"
    /\ interested_receiver = Some(2)
    /\ receiver_alive = {1, 2}



(***************************************************************************)
(* C23: the bool register_miner_coordinator returns is TRUE exactly when   *)
(* the slot held a registration when the call had the lock; so when the    *)
(* calls made so far started from the empty slot and no replace_receiver   *)
(* came between them, exactly one of them, the first to get the lock,      *)
(* returned FALSE.                                                         *)
(***************************************************************************)
C23_ReturnsTrueIffDisplaced ==
    /\ [][Len(channel_events') = Len(channel_events) + 1 =>
            register_returned' = Append(register_returned, sender_info # None)]_vars
    /\ []((Len(channel_events) >= 1 /\ receiver_alive = DOMAIN channel_events) =>
             Cardinality({c \in DOMAIN register_returned :
                              ~register_returned[c]}) = 1)

\* two registrations with no unregister between them
C23_Witness ==
    /\ register_returned = <<FALSE, TRUE>>
    /\ receiver_alive = {1, 2}



\* a boot contract whose name starts with the signers name
IsBootSigners(c) == c.is_boot /\ c.starts_with_signers

(***************************************************************************)
(* C24: is_active(c) returns a sender, that of the slot, exactly when the  *)
(* slot holds a registration and either its interested_in_signers flag is  *)
(* set and c is a boot signers contract, or c is in its other_interests;   *)
(* every registration register_miner_coordinator makes has the flag set    *)
(* and no other interests, so while one is present is_active returns a     *)
(* sender for the boot signers contracts and None for every other one.     *)
(***************************************************************************)
C24_IsActiveExactlyForInterest ==
    /\ \A guard \in {None} \cup InnerStackerDBChannels : \A c \in ContractIds :
          /\ is_active_on(guard, c) # None <=>
                 /\ guard # None
                 /\ \/ guard.interested_in_signers /\ IsBootSigners(c)
                    \/ c \in guard.other_interests
          /\ is_active_on(guard, c) # None =>
                 is_active_on(guard, c) = Some(guard.sender)
    /\ sender_info # None =>
          /\ sender_info.interested_in_signers
          /\ sender_info.other_interests = {}
    /\ \A c \in ContractIds :
          is_active(c) # None <=> (sender_info # None /\ IsBootSigners(c))
    /\ call_pc = "forward" /\ interested_observers = <<>> =>
          interested_receiver # None

\* a call for a boot signers contract goes on only because is_active
\* returned the sender of the registration
C24_Witness ==
    /\ call_pc = "forward"
    /\ interested_observers = <<>>
    /\ interested_receiver = Some(1)
    /\ sender_info = new_miner_receiver(1)



\* the thread in process_new_stackerdb_chunks is past is_active: at the send
\* on the channel, or in send_payload for an observer
PastIsActive == call_pc \in {"forward", "running"}

(***************************************************************************)
(* C25: the sender_info Mutex is not held across the send on the channel   *)
(* nor across an HTTP delivery.  Whenever the thread that runs             *)
(* process_new_stackerdb_chunks is past is_active (before the send, in an  *)
(* attempt, in the sleep between attempts, however many attempts failed)   *)
(* the Mutex is free, and register_miner_coordinator and replace_receiver  *)
(* can take it and complete.                                               *)
(***************************************************************************)
C25_LockFreeWhileDispatching ==
    /\ PastIsActive => mutex_holder = None
    /\ sp_pc # "none" => mutex_holder = None
    /\ PastIsActive =>
          /\ ENABLED register_miner_coordinator
          /\ \A r \in receiver_alive : ENABLED replace_receiver(r)

\* the event was sent to the first receiver, and while the thread retried
\* a failing observer the receiver was unregistered
C25_Witness ==
    /\ sp_pc = "sleep"
    /\ failures = MaxAttempts
    /\ interested_receiver = Some(1)
    /\ channel_events = <<1>>
    /\ sender_info = None
    /\ receiver_alive = {}



\* the send of the call found the Receiver of its channel dropped: the call
\* is past the send and its channel holds no event
ChannelSendFailed ==
    /\ call_pc \in {"running", "returned"}
    /\ interested_receiver # None
    /\ channel_events[interested_receiver.some] = 0

(***************************************************************************)
(* C26: a send on the channel that fails because the Receiver was dropped  *)
(* is ignored.  The step queues nothing and goes on to the for loop: the   *)
(* first observer subscribed to StackerDB chunks is sent the payload, or   *)
(* the call returns when there is none; and the call returns only when     *)
(* every such observer has acknowledged the payload.                       *)
(***************************************************************************)
C26_SendFailureIsIgnored ==
    /\ [][(/\ call_pc = "forward" /\ call_pc' # "forward"
            /\ interested_receiver # None
            /\ interested_receiver.some \notin receiver_alive)
           => /\ channel_events' = channel_events
              /\ IF interested_observers = <<>>
                 THEN call_pc' = "returned"
                 ELSE /\ call_pc' = "running"
                      /\ sp_pc' = "attempt"
                      /\ pos' = 1
                      /\ payload' = <<"process_new_stackerdb_chunks">>]_vars
    /\ [](ChannelSendFailed =>
             /\ contacted \subseteq stackerdb_observers_lookup
             /\ call_pc = "returned" => stackerdb_observers_lookup \subseteq acked)

\* the send failed and the observer subscribed to the chunks acknowledged
C26_Witness ==
    /\ ChannelSendFailed
    /\ call_pc = "returned"
    /\ stackerdb_observers_lookup # {}
    /\ acked = stackerdb_observers_lookup



(***************************************************************************)
(* Properties of send_request                                              *)
(***************************************************************************)
\* what try_flush, send_data and recv_data return, and what try_recv returns
FlushResults == {NetOk(TRUE), NetOk(FALSE)} \cup NetFailures
CountResults == {NetOk(0), NetOk(1)} \cup NetFailures
RecvResults ==
    {NetOk(NoMessage)}
    \cup {NetOk(m) : m \in UNION {StacksHttpMessages(p) : p \in RequestPaths}}
    \cup NetFailures
Clock == 0 .. (Timeout + 1)

\* the step returns the io::Error handle_net_error makes of e
ReturnsErrorOf(step, e) == step.return /\ step.result = handle_net_error(e)

(***************************************************************************)
(* C27: send_request makes at most one exchange on one connection it has   *)
(* opened and never retries.  At most one socket is connected and the      *)
(* request is given to the handle at most once, exactly once when the      *)
(* loops run or a response is returned; and an iteration in which          *)
(* try_flush, send_data, recv_data or try_recv fails returns the error of  *)
(* the first call that failed, whatever the clock and the other calls.     *)
(***************************************************************************)
C27_OneExchangeNoRetry ==
    /\ connections <= 1
    /\ handed <= 1
    /\ sr_pc \in {"sending", "receiving"} =>
          connections = 1 /\ handed = 1 /\ sr_result = None
    /\ (sr_result # None /\ sr_result.ok) => connections = 1 /\ handed = 1
    /\ sr_result # None <=> sr_pc = "returned"
    /\ \A t \in Clock : \A f \in NetFailures :
          /\ \A x \in CountResults : ReturnsErrorOf(send_iteration(f, x, t), f.e)
          /\ \A x \in {NetOk(TRUE), NetOk(FALSE)} :
                ReturnsErrorOf(send_iteration(x, f, t), f.e)
          /\ \A x \in RecvResults : ReturnsErrorOf(recv_iteration(f, x, t), f.e)
          /\ \A x \in {NetOk(0), NetOk(1)} :
                ReturnsErrorOf(recv_iteration(x, f, t), f.e)

\* the second address connected, the request went to the handle, and the
\* call returned the write failure of the first iteration that failed
C27_Witness ==
    /\ sr_pc = "returned"
    /\ addr_i = 2
    /\ connections = 1
    /\ handed = 1
    /\ sr_result = Err("BrokenPipe")
    /\ sr_message = <<"Failed to send socket data">>
    /\ elapsed = 1



\* the io::Error of an expired deadline (lines 455-458, 503-506)
DeadlineError ==
    Return(Err("WouldBlock"), <<"Timed out while receiving request">>)

(***************************************************************************)
(* C28: both loops of send_request look at the clock in every iteration    *)
(* that neither finished nor failed.  Such an iteration of the send loop   *)
(* (not yet flushed, or bytes sent) and of the receive loop (no message    *)
(* yet) returns the WouldBlock error when the time since start exceeds the *)
(* timeout and goes on otherwise, so no iteration starts after the         *)
(* deadline has passed; and, time passing, a call that is in a loop        *)
(* returns: a peer that never responds gets the call a WouldBlock error.   *)
(***************************************************************************)
C28_LoopsCheckDeadline ==
    /\ [](\A t \in Clock :
             /\ \A f \in BOOLEAN, n \in {0, 1} :
                   ~(f /\ n = 0) =>
                       send_iteration(NetOk(f), NetOk(n), t) =
                           IF t > Timeout THEN DeadlineError ELSE Continue("sending")
             /\ \A n \in {0, 1} :
                   recv_iteration(NetOk(n), NetOk(NoMessage), t) =
                       IF t > Timeout THEN DeadlineError ELSE Continue("receiving"))
    /\ [][(sr_pc = "sending" /\ sr_pc' = "sending") => elapsed' <= Timeout]_vars
    /\ [][(sr_pc = "receiving" /\ sr_pc' = "receiving") => elapsed' <= Timeout]_vars
    /\ [](sr_pc = "sending" => elapsed <= Timeout)
    /\ (sr_pc \in {"sending", "receiving"}) ~> (sr_pc = "returned")

\* the call gave up after the deadline with the request written out and
\* no message received
C28_Witness ==
    /\ sr_pc = "returned"
    /\ handed = 1
    /\ elapsed = Timeout + 1
    /\ sr_result = Err("WouldBlock")
    /\ sr_message = <<"Timed out while receiving request">>



\* the call failed in the connect loop: no address gave a socket
FailedToConnect == sr_pc = "returned" /\ connections = 0

AllMessages == UNION {StacksHttpMessages(p) : p \in RequestPaths}

(***************************************************************************)
(* C30: send_request returns Ok exactly for a Response message, with its   *)
(* status; an Error message gives a failure that carries the status code   *)
(* and the request path; any other message gives a failure; and whatever   *)
(* message the handle yields ends the call in that iteration, before or    *)
(* after the deadline: none is dropped to wait for another.                *)
(***************************************************************************)
C30_OnlyResponsesAreOk ==
    /\ \A m \in AllMessages :
          /\ decode(m).return
          /\ decode(m).result.ok <=> m.kind = "Response"
          /\ m.kind = "Response" => decode(m).result = Ok(m.status)
          /\ m.kind = "Error" =>
                /\ decode(m).result = Err("Other")
                /\ decode(m).message = <<"Request did not succeed", m.status, m.path>>
          /\ \A t \in Clock : \A n \in {0, 1} :
                recv_iteration(NetOk(n), NetOk(m), t) = decode(m)
    /\ (sr_result # None /\ sr_result.ok) =>
          /\ sr_pc = "returned"
          /\ handed = 1
          /\ sr_result.status \in ResponseStatuses
    /\ (sr_pc = "returned" /\ Len(sr_message) = 3) =>
          /\ sr_result = Err("Other")
          /\ sr_message[2] \in ErrorStatuses
          /\ sr_message[3] = sr_request.some.path

\* the observer answered 404: the failure names the status and the path
C30_Witness ==
    /\ sr_pc = "returned"
    /\ sr_request = Some([path |-> PATH_STACKERDB_CHUNKS])
    /\ sr_result = Err("Other")
    /\ sr_message = <<"Request did not succeed", 404, PATH_STACKERDB_CHUNKS>>



(***************************************************************************)
(* C35: a registration stays active until a later                          *)
(* register_miner_coordinator displaces it or its own receiver is given to *)
(* replace_receiver: a replace_receiver step that is given the receiver of *)
(* another, displaced registration leaves the registration in the slot as  *)
(* it is, and is_active still returns its sender for a boot signers        *)
(* contract.                                                               *)
(***************************************************************************)
C35_StaleUnregisterKeepsRegistration ==
    [][\A r \in receiver_alive :
          (/\ receiver_alive' = receiver_alive \ {r}
           /\ sender_info # None
           /\ sender_info.sender # r)
          => /\ sender_info' = sender_info
             /\ is_active([is_boot |-> TRUE, starts_with_signers |-> TRUE])'
                    = Some(sender_info.sender)]_vars


RECURSIVE SumSeq(_)
\* the sum of a sequence of numbers
SumSeq(q) == IF q = <<>> THEN 0 ELSE q[1] + SumSeq(Tail(q))

\* events queued on the channels, all receivers together
TotalForwarded == SumSeq(channel_events)

(***************************************************************************)
(* C36: in process_new_stackerdb_chunks the event is sent on the channel   *)
(* once, by the step that follows is_active, and before any HTTP request   *)
(* of the call: while the send is still to come no observer was contacted, *)
(* and the retries of an observer queue nothing more.  A call that finds   *)
(* neither a subscribed observer nor a sender returns at once: nothing is  *)
(* queued on a channel and no request is made.                             *)
(***************************************************************************)
C36_ChannelSendOnceBeforeHttp ==
    /\ [](TotalForwarded <= 1)
    /\ [](call_pc \in {"idle", "forward"} => contacted = {} /\ sp_requests = {})
    /\ [][(Len(channel_events') = Len(channel_events) /\ channel_events' # channel_events)
            => /\ call_pc = "forward" /\ call_pc' # "forward"
               /\ TotalForwarded = 0]_vars
    /\ [][(/\ call_pc = "forward" /\ call_pc' # "forward"
            /\ interested_receiver # None
            /\ interested_receiver.some \in receiver_alive)
           => channel_events'[interested_receiver.some] = 1]_vars
    /\ []((/\ call_pc = "returned"
           /\ interested_observers = <<>>
           /\ interested_receiver = None)
          => TotalForwarded = 0 /\ contacted = {} /\ sp_requests = {})
    /\ [][(/\ call_pc = "idle" /\ call_pc' # "idle"
            /\ stackerdb_observers_lookup = {}
            /\ sender_info = None)
           => call_pc' = "returned" /\ channel_events' = channel_events]_vars

\* the receiver has the event while the call retries a failing observer
C36_Witness ==
    /\ call_pc = "running"
    /\ sp_pc = "sleep"
    /\ failures = MaxAttempts
    /\ acked = {}
    /\ channel_events = <<1>>
    /\ receiver_alive = {1}


\* the calls that pass include_any = true to filter_observers, and those
\* that pass false
WildcardCalls ==
    {"process_burn_block", "process_new_mempool_txs",
     "process_dropped_mempool_txs", "process_new_microblocks"}
ExplicitCalls ==
    {"process_mined_block_event", "process_mined_microblock_event",
     "process_mined_nakamoto_block_event", "process_new_stackerdb_chunks"}

\* the topic of a delivery
TopicKey(c) ==
    CASE c = "process_burn_block" -> BurnchainBlocks
      [] c \in {"process_new_mempool_txs", "process_dropped_mempool_txs"} ->
             MemPoolTransactions
      [] c = "process_new_microblocks" -> Microblocks
      [] c \in {"process_mined_block_event", "process_mined_nakamoto_block_event"} ->
             MinedBlocks
      [] c = "process_mined_microblock_event" -> MinedMicroblocks
      [] c = "process_new_stackerdb_chunks" -> StackerDBChunks

\* the registered observers whose configuration names the key
Subscribers(key) ==
    {o \in 0 .. (registered_observers - 1) : key \in registered_confs[o + 1]}

\* the observers a delivery is for
Recipients(c) ==
    IF c \in WildcardCalls
    THEN Subscribers(TopicKey(c)) \cup Subscribers(AnyEvent)
    ELSE Subscribers(TopicKey(c))

RECURSIVE FlattenedOwners(_)
\* for each event of a batch, in flattened order, the receipt it came in
FlattenedOwners(receipts) ==
    IF Len(receipts) = 0 THEN <<>>
    ELSE [e \in 1 .. Len(receipts[1].events) |-> receipts[1]]
         \o FlattenedOwners(Tail(receipts))

BatchOwners == FlattenedOwners(matrix_call.some.receipts)

\* C39: create_dispatch_matrix_and_event_vector returns one set per
\* registered observer and an event list as long as the flattened batch; its
\* i-th entry is the i-th event of the batch with the txid of the receipt it
\* came in and committed = not post_condition_aborted of that receipt; every
\* index in every set is below the length of the list
C39_MatrixAndEventVectorShape ==
    matrix_call # None =>
        LET res == matrix_call.some
            N == Len(BatchEvents)
        IN  /\ Len(res.dispatch_matrix) = registered_observers
            /\ Len(res.events) = N
            /\ \A i \in 1 .. N :
                  /\ res.events[i].event = BatchEvents[i]
                  /\ res.events[i].txid = BatchOwners[i].txid
                  /\ res.events[i].committed = ~BatchOwners[i].post_condition_aborted
            /\ \A o \in Observers : MatrixSet(o) \subseteq 0 .. (N - 1)

\* two observers, and a batch with one committed and one aborted event; one
\* of the sets holds the last index
C39_Witness ==
    /\ matrix_call # None
    /\ registered_observers = 2
    /\ Len(matrix_call.some.events) = 2
    /\ matrix_call.some.events[1].committed
    /\ ~matrix_call.some.events[2].committed
    /\ \E o \in Observers : 1 \in MatrixSet(o)



(***************************************************************************)
(* process_chain_tip with receipts that carry events.                      *)
(***************************************************************************)
\* the configurations observers register with, for the new_block payloads
ChainTipConfigs ==
    {{AnyEvent}, {STXEvent}, {SmartContractEvent("k1")},
     {BurnchainBlocks, BlockProposal}}

\* the events of the receipts of the block
ChainTipEvents ==
    {ev \in StacksTransactionEvents :
        \/ ev.type = "SmartContractEvent" /\ ev.key = "k1"
        \/ ev.subtype = "STXTransferEvent"
        \/ ev.subtype = "NFTMintEvent"}

ChainTipBatches ==
    {receipts \in ReceiptBatches :
        \A r \in 1 .. Len(receipts) : \A e \in 1 .. Len(receipts[r].events) :
            receipts[r].events[e] \in ChainTipEvents}

NextChainTip ==
    \/ \E conf \in ChainTipConfigs : register_observer(conf)
    \/ \E receipts \in ChainTipBatches : process_chain_tip(receipts)
    \/ SendPayloadAttempt
    \/ SendPayloadSleep
    \/ DispatchNext

\* the registry, one process_chain_tip call and its deliveries
SpecChainTip == InitDelivery /\ [][NextChainTip]_vars

\* C33: process_chain_tip delivers one new_block payload to every registered
\* observer, in ascending index order, whatever the observer subscribed to;
\* the events of the payload of observer o are exactly the events of the
\* batch whose flattened index is in the set of o in the dispatch matrix,
\* each tagged with that index; with no observer nothing is sent
C33_NewBlockToEveryObserver ==
    call = "process_chain_tip" =>
        /\ registered_observers = 0 =>
              /\ call_pc = "returned"
              /\ contacted = {}
              /\ sp_requests = {}
        /\ call_pc = "running" =>
              /\ interested_observers = [i \in 1 .. registered_observers |-> i - 1]
              /\ \A o \in Observers : o < CurrentObserver <=> o \in acked \ {CurrentObserver}
              /\ contacted \subseteq 0 .. CurrentObserver
              /\ payload[2] = CurrentObserver
              /\ payload[3] =
                    {[event_index |-> i,
                      txid |-> BatchOwners[i + 1].txid,
                      committed |-> ~BatchOwners[i + 1].post_condition_aborted,
                      event |-> BatchEvents[i + 1]] : i \in MatrixSet(CurrentObserver)}
              /\ \A rq \in sp_requests :
                    rq = NewRequest(CurrentObserver, PATH_BLOCK_PROCESSED, payload)
        /\ call_pc = "returned" => acked = Observers

\* the second observer subscribed to no event topic and is sent its payload
\* with no event, after the first was sent one of the two events of the batch
C33_Witness ==
    /\ call = "process_chain_tip"
    /\ call_pc = "running"
    /\ pos = 2
    /\ registered_confs[2] \subseteq NonEventTopics
    /\ sp_requests # {}
    /\ payload[3] = {}
    /\ Len(BatchEvents) = 2
    /\ Cardinality(MatrixSet(0)) = 1
    /\ 0 \in acked



(***************************************************************************)
(* The handler and the stream under any caller                             *)
(***************************************************************************)
\* the header of block b is missing or is not a Nakamoto header
NoNakamotoHeader(b) ==
    \/ get_block_header_nakamoto(b) = None
    \/ as_stacks_nakamoto(get_block_header_nakamoto(b).some) = None

C37_TerminalStateIsAbsorbing ==
    [][(generate_next_chunk /\ rpc_pc = "done" /\ send_more = "false") =>
          /\ rpc_pc' = "done"
          /\ send_more' = "false"
          /\ response_body' = response_body
          /\ visited' = visited
          /\ stream'.index_block_hash = stream.index_block_hash
          /\ stream'.parent_block_id = stream.parent_block_id
          /\ stream'.consensus_hash = stream.consensus_hash
          /\ stream'.total_sent >= stream.total_sent]_vars

\* the stream ended on the budget and was pulled again: the last block was
\* counted more than once
C37_Witness ==
    /\ rpc_pc = "done"
    /\ send_more = "false"
    /\ Len(visited) >= 2
    /\ stream.total_sent > Len(response_body)

\* next_block on stream s gets as far as the budget test
ReachesBudgetTest(s) ==
    /\ BlockChunk(s) = <<>>
    /\ ~NoNakamotoHeader(s.parent_block_id)
    /\ SameTenure(chain[s.parent_block_id], s)
    /\ get_nakamoto_block_size(s.parent_block_id) # None

\* C38: the parent is accepted exactly when the bytes of the blocks sent so
\* far, the block just finished included, plus the size of the parent are at
\* most MAX_MESSAGE_LEN; the sums saturate, so that no count of bytes and no
\* size up to the largest u64 lets a parent pass that does not fit
C38_BudgetTestIsExact ==
    /\ [][(generate_next_chunk /\ ReachesBudgetTest(stream)) =>
             /\ send_more' = "true" <=>
                   stream.total_sent + stream.total_bytes
                       + chain[stream.parent_block_id].size <= MAX_MESSAGE_LEN
             /\ rpc_pc = "streaming" =>
                   (send_more' = "true" <=>
                       Len(response_body) + chain[stream.parent_block_id].size
                           <= MAX_MESSAGE_LEN)]_vars
    /\ [](stream # None =>
             \A parent_size \in 0 .. U64_MAX :
                 FitsBudget(saturating_add(stream.total_sent, stream.total_bytes),
                            parent_size)
                 <=> stream.total_sent + stream.total_bytes + parent_size
                         <= MAX_MESSAGE_LEN)

\* a parent was accepted that made the response exactly MAX_MESSAGE_LEN long
C38_Witness ==
    /\ rpc_pc = "streaming"
    /\ send_more = "true"
    /\ Len(visited) >= 2
    /\ stream.total_sent + chain[stream.index_block_hash].size = MAX_MESSAGE_LEN

=============================================================================
